---- MODULE Spec2Model ----
(***************************************************************************)
(* Model of note-para-sweep's suggestion-to-action pipeline:              *)
(* FileOperator (file_operations.py) and the suggestion validator and     *)
(* executor (cli.py), over an explicit POSIX-like filesystem; the         *)
(* discussion session of cli.py with the conversation methods of          *)
(* LLMClient (llm_client.py); the suggestion history of FileOperator;     *)
(* the retry loop of chat_completion under the single-shot calls; and the *)
(* loop of optimize over the suggestions.                                 *)
(***************************************************************************)
EXTENDS Integers, Sequences, FiniteSets, TLC

VARIABLES fs, pre, last, dry_run, steps, repeat

\* the filesystem run: the filesystem, the one before the latest call, the
\* latest call, FileOperator.dry_run, the calls made, the create_directory
\* repetition
fileVars == <<fs, pre, last, dry_run, steps, repeat>>

\* a discussion: where _interactive_discussion stands, its locals
\* conversation_count and suggestion (local_suggestion), the client's conversation_history and
\* current_suggestion, the calls of continue_suggestion_conversation made,
\* the latest step, and the value returned
VARIABLES session, conversation_count, local_suggestion, conversation_history,
          current_suggestion, submitted, turn, returned

talkVars == <<session, conversation_count, local_suggestion, conversation_history,
              current_suggestion, submitted, turn, returned>>

\* the history store: the persisted document, the operator's in-memory
\* suggestion_history, the latest store operation, the operations made, and
\* the log of all operations made so far
VARIABLES document, suggestion_history, store_op, store_steps, store_log

storeVars == <<document, suggestion_history, store_op, store_steps, store_log>>

\* a single-shot call (classify_note or optimize_structure) and the
\* chat_completion it makes: where the call stands, the calling method, the
\* API attempts made, the failures and the time.sleep waits so far, the
\* value chat_completion gave, and the record the calling method returned
VARIABLES chat_state, caller, attempt, failures, waits, reply, call_result

chatVars == <<chat_state, caller, attempt, failures, waits, reply, call_result>>

\* the optimize loop: where it stands, the suggestions handled, the
\* suggestions still to come, and the branch the latest iteration took
VARIABLES opt_state, handled, remaining, branch

optVars == <<opt_state, handled, remaining, branch>>

\* a client called directly: the dict objects of the process by their
\* identity, the object the caller passed to start_suggestion_conversation,
\* the object self.current_suggestion is bound to (0: never assigned), the
\* value of the caller's object when it was passed, the latest call, and the
\* calls made
VARIABLES objects, suggestion_ref, draft_ref, proposed, client_call, client_steps

clientVars == <<objects, suggestion_ref, draft_ref, proposed, client_call, client_steps>>

\* execute_classification: the classification dict of the latest call
VARIABLES classification

classifyVars == <<classification>>

vars == <<fileVars, talkVars, storeVars, chatVars, optVars, clientVars, classifyVars>>

(***************************************************************************)
(* Bounds                                                                  *)
(***************************************************************************)
\* number of direct FileOperator calls in one run
MaxOps == 2

\* number of _execute_suggestion calls in one run
MaxExecs == 1

\* number of continue_suggestion_conversation calls in one discussion
MaxSubmitted == 10

\* number of operations on the history store in one run
MaxStoreOps == 5

\* number of suggestions the optimize loop is given
MaxSuggestions == 2

\* number of calls made on one client
MaxClientCalls == 5

\* number of execute_classification calls in one run
MaxClassifications == 1

(***************************************************************************)
(* Strings.  A path string is modelled by its "/"-separated segments and   *)
(* a flag for a leading "/"; a segment is an opaque text whose relevant    *)
(* substrings are tabulated below.                                         *)
(***************************************************************************)
Str(lead, segs) == [lead |-> lead, segs |-> segs]

EmptyStr == Str(FALSE, <<>>)

\* Python truthiness of a str: non-empty
Truthy(s) == s.lead \/ s.segs # <<>>

\* segments that consist of whitespace only
WhitespaceSegs == {" "}

\* s.strip() == ""
IsBlank(s) ==
    /\ ~s.lead
    /\ s.segs = <<>> \/ (Len(s.segs) = 1 /\ s.segs[1] \in WhitespaceSegs)

\* s.startswith("/")
StartsWithSlash(s) == s.lead

\* s.lstrip("/")
LStripSlash(s) == Str(FALSE, s.segs)

(***************************************************************************)
(* pathlib paths: absolute flag and the raw parts (".." is kept)           *)
(***************************************************************************)
MkPath(abs, parts) == [abs |-> abs, parts |-> parts]

\* Path(s)
PathOf(s) == MkPath(s.lead, s.segs)

\* p / s : an absolute right operand replaces the left one
Join(p, s) == IF s.lead THEN PathOf(s) ELSE MkPath(p.abs, p.parts \o s.segs)

\* p.parent : the parent of a path without parts is the path itself
Front(q) == SubSeq(q, 1, Len(q) - 1)

ParentPath(p) == IF p.parts = <<>> THEN p ELSE MkPath(p.abs, Front(p.parts))

\* p / name
Child(p, name) == MkPath(p.abs, Append(p.parts, name))

\* p.name
NameOf(p) == IF p.parts = <<>> THEN "" ELSE p.parts[Len(p.parts)]

\* the process's working directory and the configured vault root
Cwd == <<"work">>

VaultPath == MkPath(TRUE, <<"vault">>)

RECURSIVE Normalize(_, _)
Normalize(acc, rest) ==
    IF rest = <<>> THEN acc
    ELSE IF Head(rest) = ".."
         THEN Normalize(Front(acc), Tail(rest))
         ELSE Normalize(Append(acc, Head(rest)), Tail(rest))

\* Path.resolve(): absolute, ".." folded (the model has no symlinks)
Resolve(p) == Normalize(<<>>, IF p.abs THEN p.parts ELSE Cwd \o p.parts)

(***************************************************************************)
(* The filesystem: a function from the absolute locations that exist to    *)
(* their node.  <<>> is the root directory.                                *)
(***************************************************************************)
DirNode == [kind |-> "dir", data |-> "-"]

FileNode(d) == [kind |-> "file", data |-> d]

\* st_size of a file's content; "short" is a truncated copy
SizeOf(d) == CASE d = "A" -> 2 [] d = "B" -> 2 [] d = "empty" -> 0 [] OTHER -> 1

Truncated == "short"

IsPrefix(a, b) == Len(a) <= Len(b) /\ SubSeq(b, 1, Len(a)) = a

\* path lookup as the kernel does it: every component walked must exist,
\* every intermediate one must be a directory, ".." steps to the parent
RECURSIVE WalkFrom(_, _, _)
WalkFrom(f, cur, rest) ==
    IF cur \notin DOMAIN f THEN [err |-> "ENOENT", loc |-> cur]
    ELSE IF rest = <<>> THEN [err |-> "ok", loc |-> cur]
    ELSE IF f[cur].kind # "dir" THEN [err |-> "ENOTDIR", loc |-> cur]
    ELSE IF Head(rest) = ".." THEN WalkFrom(f, Front(cur), Tail(rest))
    ELSE WalkFrom(f, Append(cur, Head(rest)), Tail(rest))

Walk(f, p) == WalkFrom(f, IF p.abs THEN <<>> ELSE Cwd, p.parts)

\* Path.exists(), is_file(), is_dir(): lookup errors read as False
Exists(f, p) == Walk(f, p).err = "ok"

IsFile(f, p) == LET w == Walk(f, p) IN w.err = "ok" /\ f[w.loc].kind = "file"

IsDir(f, p) == LET w == Walk(f, p) IN w.err = "ok" /\ f[w.loc].kind = "dir"

Put(f, loc, node) == [q \in DOMAIN f \cup {loc} |-> IF q = loc THEN node ELSE f[q]]

Remove(f, loc) == [q \in DOMAIN f \ {loc} |-> f[q]]

Children(f, loc) == {q \in DOMAIN f : Len(q) = Len(loc) + 1 /\ IsPrefix(loc, q)}

\* rename(2) of a subtree
MoveTree(f, from, to) ==
    LET moved == {q \in DOMAIN f : IsPrefix(from, q)}
        Dest(q) == to \o SubSeq(q, Len(from) + 1, Len(q))
        kept == DOMAIN f \ moved
    IN [q \in kept \cup {Dest(m) : m \in moved} |->
          IF \E m \in moved : Dest(m) = q
          THEN f[CHOOSE m \in moved : Dest(m) = q]
          ELSE f[q]]

\* os.mkdir(p): [err, fs]
OsMkdir(f, p) ==
    IF p.parts = <<>> THEN [err |-> "EEXIST", fs |-> f]
    ELSE LET w == Walk(f, ParentPath(p))
             name == NameOf(p)
         IN IF w.err # "ok" THEN [err |-> w.err, fs |-> f]
            ELSE IF f[w.loc].kind # "dir" THEN [err |-> "ENOTDIR", fs |-> f]
            ELSE IF name = ".." \/ Append(w.loc, name) \in DOMAIN f
                 THEN [err |-> "EEXIST", fs |-> f]
            ELSE [err |-> "ok", fs |-> Put(f, Append(w.loc, name), DirNode)]

\* Path.mkdir(parents=True, exist_ok=True): [err, fs]
RECURSIVE MkdirParents(_, _)
MkdirParents(f, p) ==
    LET first == OsMkdir(f, p)
    IN IF first.err = "ok" THEN first
       ELSE IF first.err = "ENOENT"
            THEN IF p.parts = <<>> THEN first
                 ELSE LET up == MkdirParents(f, ParentPath(p))
                      IN IF up.err # "ok" THEN up
                         ELSE LET again == OsMkdir(up.fs, p)
                              IN IF again.err = "ok" \/ IsDir(again.fs, p)
                                 THEN [err |-> "ok", fs |-> again.fs]
                                 ELSE again
       ELSE IF IsDir(f, p) THEN [err |-> "ok", fs |-> f]
       ELSE first

(***************************************************************************)
(* Failures of the filesystem primitives, injected by the environment.     *)
(*   mkdir         Path.mkdir raises                                       *)
(*   copy_none     shutil.copy2 raises before the target is created        *)
(*   copy_partial  shutil.copy2 raises after writing (part of) the target  *)
(*   short         shutil.copy2 returns, the target is shorter             *)
(*   unlink        source.unlink() raises                                  *)
(*   *_rollback    the same, and the rollback's target.unlink() raises too *)
(*   rename        os.rename / shutil.move of a directory raises           *)
(*   rmdir         Path.rmdir raises                                       *)
(***************************************************************************)
FileFaults ==
    {"none", "mkdir", "copy_none", "copy_partial", "short", "unlink",
     "short_rollback", "unlink_rollback"}

RollbackFails(fault) == fault \in {"short_rollback", "unlink_rollback"}

\* with exist_ok=True an existing directory is accepted whatever os.mkdir says
MkdirF(f, p, fault) ==
    IF fault = "mkdir" /\ ~IsDir(f, p)
    THEN [err |-> "EACCES", fs |-> f]
    ELSE MkdirParents(f, p)

\* the values of a classification dict: a str or None, a list of such or None
PyStr(s) == [is_none |-> FALSE, value |-> s]

PyNone == [is_none |-> TRUE, value |-> EmptyStr]

PyList(items) == [is_none |-> FALSE, items |-> items]

PyNoneList == [is_none |-> TRUE, items |-> <<>>]

Classification(target_path, create_directories) ==
    [target_path |-> target_path, create_directories |-> create_directories]

(***************************************************************************)
(* FileOperator                                                            *)
(***************************************************************************)
NoError == "None"

\* segments of the model that contain "~"
TildeSegs == {"~"}

\* segments of the model that start with etc, var, usr, bin or sbin
SystemSegs == {"etc"}

\* segments of the model that end in ".."
DotDotSegs == {".."}

\* the dangerous patterns searched in str(path.resolve())
HasDangerousPattern(q) ==
    \/ \E i \in 1..(Len(q) - 1) : q[i] \in DotDotSegs
    \/ \E i \in 1..Len(q) : q[i] \in TildeSegs
    \/ \E i \in 1..Len(q) : q[i] \in SystemSegs

IsSafePath(p) ==
    LET resolved_path == Resolve(p)
    IN /\ ~HasDangerousPattern(resolved_path)
       /\ resolved_path # <<>>

\* the location a file written at path p lands on (its parent exists)
LandingLoc(f, p) == Append(Walk(f, ParentPath(p)).loc, NameOf(p))

CanWriteFile(f, p) ==
    /\ p.parts # <<>>
    /\ NameOf(p) # ".."
    /\ IsDir(f, ParentPath(p))
    /\ ~IsDir(f, p)

\* mutant: the copy is verified but the source is never deleted
CopyVerifyDelete_KeepsSource(f, source, target, fault) ==
    LET src == Walk(f, source).loc
        tgt == LandingLoc(f, target)
    IN IF fault # "none" \/ ~CanWriteFile(f, target)
       THEN [exc |-> "copy_failed", fs |-> f]
       ELSE [exc |-> NoError, fs |-> Put(f, tgt, f[src])]

\* the non-dry-run branch of move_file: copy, verify, delete, rollback.
\* [exc, fs]
CopyVerifyDelete(f, source, target, fault) ==
    LET src == Walk(f, source).loc
        tgt == LandingLoc(f, target)
        copied ==
            IF fault \in {"short", "short_rollback", "copy_partial"}
            THEN Put(f, tgt, FileNode(Truncated))
            ELSE Put(f, tgt, f[src])
        Rollback(g) ==
            IF tgt \in DOMAIN g /\ ~RollbackFails(fault) THEN Remove(g, tgt) ELSE g
    IN IF fault = "copy_none" \/ ~CanWriteFile(f, target)
       THEN [exc |-> "copy_failed", fs |-> f]
       ELSE IF fault = "copy_partial"
       THEN [exc |-> "copy_failed", fs |-> copied]
       ELSE IF tgt \notin DOMAIN copied
               \/ SizeOf(copied[tgt].data) # SizeOf(copied[src].data)
       THEN [exc |-> "verify_failed", fs |-> Rollback(copied)]
       ELSE IF fault \in {"unlink", "unlink_rollback"}
       THEN [exc |-> "unlink_failed", fs |-> Rollback(copied)]
       ELSE [exc |-> NoError, fs |-> Remove(copied, src)]

\* mutant: the check that the target does not exist yet is missing
MoveFileBody_Overwrite(f, dry, source, target, fault) ==
    IF ~IsSafePath(source) \/ ~IsSafePath(target)
    THEN [exc |-> "unsafe_path", fs |-> f]
    ELSE IF ~Exists(f, source) THEN [exc |-> "source_missing", fs |-> f]
    ELSE IF ~IsFile(f, source) THEN [exc |-> "not_a_file", fs |-> f]
    ELSE LET made == MkdirF(f, ParentPath(target), fault)
         IN IF made.err # "ok" THEN [exc |-> "mkdir_failed", fs |-> made.fs]
            ELSE IF dry THEN [exc |-> NoError, fs |-> made.fs]
            ELSE CopyVerifyDelete(made.fs, source, target, fault)

\* the try block of move_file: [exc, fs]
MoveFileBody(f, dry, source, target, fault) ==
    IF ~IsSafePath(source) \/ ~IsSafePath(target)
    THEN [exc |-> "unsafe_path", fs |-> f]
    ELSE IF ~Exists(f, source) THEN [exc |-> "source_missing", fs |-> f]
    ELSE IF ~IsFile(f, source) THEN [exc |-> "not_a_file", fs |-> f]
    ELSE IF Exists(f, target) THEN [exc |-> "target_exists", fs |-> f]
    ELSE LET made == MkdirF(f, ParentPath(target), fault)
         IN IF made.err # "ok" THEN [exc |-> "mkdir_failed", fs |-> made.fs]
            ELSE IF dry THEN [exc |-> NoError, fs |-> made.fs]
            ELSE CopyVerifyDelete(made.fs, source, target, fault)

\* mutant: only OSError is caught, the ValueError of the checks escapes
MoveFileCatch_OSErrorOnly(out, dry) ==
    [operation |-> "move_file", success |-> out.exc = NoError,
     error |-> IF out.exc \in {"unsafe_path", "not_a_file"} THEN NoError ELSE out.exc,
     dry_run |-> dry, raised |-> out.exc \in {"unsafe_path", "not_a_file"}]

\* except Exception as e: result["error"] = str(e); return result
MoveFileCatch(out, dry) ==
    [operation |-> "move_file", success |-> out.exc = NoError,
     error |-> out.exc, dry_run |-> dry, raised |-> FALSE]

\* FileOperator.move_file: [fs, res]
MoveFile(f, dry, source, target, fault) ==
    LET Return(out) == [fs |-> out.fs, res |-> MoveFileCatch(out, dry)]
    IN Return(MoveFileBody(f, dry, source, target, fault))

\* mutant: no early return for an existing path, and mkdir without exist_ok
CreateDirectoryBody_NoExistOk(f, dry, directory_path, fault) ==
    IF ~dry
    THEN LET made == IF Exists(f, directory_path)
                     THEN [err |-> "EEXIST", fs |-> f]
                     ELSE MkdirF(f, directory_path, fault)
         IN [exc |-> IF made.err = "ok" THEN NoError ELSE "mkdir_failed",
             fs |-> made.fs]
    ELSE [exc |-> NoError, fs |-> f]

\* the try block of create_directory: [exc, fs]
CreateDirectoryBody(f, dry, directory_path, fault) ==
    IF Exists(f, directory_path) THEN [exc |-> NoError, fs |-> f]
    ELSE IF ~dry
         THEN LET made == MkdirF(f, directory_path, fault)
              IN [exc |-> IF made.err = "ok" THEN NoError ELSE "mkdir_failed",
                  fs |-> made.fs]
         ELSE [exc |-> NoError, fs |-> f]

CreateDirectoryCatch(out, dry) ==
    [operation |-> "create_directory", success |-> out.exc = NoError,
     error |-> out.exc, dry_run |-> dry, raised |-> FALSE]

\* FileOperator.create_directory: [fs, res]
CreateDirectory(f, dry, directory_path, fault) ==
    LET Return(out) == [fs |-> out.fs, res |-> CreateDirectoryCatch(out, dry)]
    IN Return(CreateDirectoryBody(f, dry, directory_path, fault))

(***************************************************************************)
(* shutil.move of a directory, Path.touch, Path.rmdir: [err, fs]           *)
(***************************************************************************)
ShutilMoveDir(f, src, dst, fault) ==
    LET s == Walk(f, src).loc
        into == IsDir(f, dst)
        real_dst == IF into THEN Child(dst, NameOf(src)) ELSE dst
        pw == Walk(f, ParentPath(real_dst))
        d == Append(pw.loc, NameOf(real_dst))
    IN IF fault = "rename" THEN [err |-> "EACCES", fs |-> f]
       ELSE IF into /\ Walk(f, dst).loc = s THEN [err |-> "ok", fs |-> f]
       ELSE IF into /\ Exists(f, real_dst) THEN [err |-> "DestinationExists", fs |-> f]
       ELSE IF real_dst.parts = <<>> \/ NameOf(real_dst) = ".." \/ Exists(f, real_dst)
            THEN [err |-> "EEXIST", fs |-> f]
       ELSE IF pw.err = "ENOTDIR" \/ (pw.err = "ok" /\ f[pw.loc].kind # "dir")
            THEN [err |-> "ENOTDIR", fs |-> f]
       ELSE IF IsPrefix(s, Resolve(real_dst)) THEN [err |-> "IntoItself", fs |-> f]
       ELSE IF pw.err = "ENOENT"
            THEN \* os.rename fails, copytree makes the parents, rmtree the source
                 LET made == MkdirParents(f, ParentPath(real_dst))
                 IN IF made.err # "ok" THEN made
                    ELSE [err |-> "ok",
                          fs |-> MoveTree(made.fs, s,
                                   Append(Walk(made.fs, ParentPath(real_dst)).loc,
                                          NameOf(real_dst)))]
       ELSE [err |-> "ok", fs |-> MoveTree(f, s, d)]

Touch(f, p) ==
    IF Exists(f, p) THEN [err |-> "ok", fs |-> f]
    ELSE IF ~CanWriteFile(f, p) THEN [err |-> "ENOENT", fs |-> f]
    ELSE [err |-> "ok", fs |-> Put(f, LandingLoc(f, p), FileNode("empty"))]

Rmdir(f, p, fault) ==
    IF fault = "rmdir" THEN [err |-> "EACCES", fs |-> f]
    ELSE [err |-> "ok", fs |-> Remove(f, Walk(f, p).loc)]

(***************************************************************************)
(* _validate_suggestion_paths                                              *)
(***************************************************************************)
\* the source's Chinese literals are written in pinyin with tone numbers
DescriptivePatterns ==
    <<"dui4ying4", "he2shi4de", "xiang1guan1de", "shi4dang4de", "zheng4que4de", "P/A/R", "zi3mu4lu4", "mu4lu4", "wei4zhi4", "di4fang1">>

\* the descriptive patterns that occur in a segment of the model
SegPatterns(seg) ==
    CASE seg = "he2shi4de mu4lu4" -> {"he2shi4de", "mu4lu4"}
      [] seg = "zi3mu4lu4" -> {"zi3mu4lu4", "mu4lu4"}
      [] OTHER -> {}

\* pattern in s
Contains(s, pattern) == \E i \in 1..Len(s.segs) : pattern \in SegPatterns(s.segs[i])

Placeholders == {Str(FALSE, <<"wu2">>), Str(FALSE, <<"wei4zhi1">>), Str(FALSE, <<"dai4ding4">>), Str(FALSE, <<"TBD">>)}

para_prefixes == <<"0. Inbox", "1. Projects", "2. Areas", "3. Resources", "4. Archives">>

\* the prefixes a segment of the model starts with
SegPrefixes(seg) ==
    CASE seg \in {"0. Inbox", "1. Projects", "2. Areas", "3. Resources", "4. Archives"} -> {seg}
      [] OTHER -> {}

\* s.startswith(prefix), for a prefix without "/"
StartsWith(s, prefix) == ~s.lead /\ s.segs # <<>> /\ prefix \in SegPrefixes(s.segs[1])

\* mutant: the PARA prefix rule is applied before the blank and placeholder rules
ValidateSuggestionPaths_PrefixFirst(f, suggestion, vault_path) ==
    LET suggestion_type == suggestion.type
        current_path == suggestion.current_path
        suggested_path == suggestion.suggested_path
        hits == {i \in 1..Len(DescriptivePatterns) :
                    Contains(current_path, DescriptivePatterns[i])
                    \/ Contains(suggested_path, DescriptivePatterns[i])}
        firstHit == CHOOSE i \in hits : \A j \in hits : i <= j
    IN IF suggestion_type = "question" THEN [valid |-> TRUE, reason |-> <<>>]
       ELSE IF hits # {}
            THEN [valid |-> FALSE, reason |-> <<"descriptive", DescriptivePatterns[firstHit]>>]
       ELSE IF suggestion_type \in {"move", "create"}
               /\ ~\E i \in 1..Len(para_prefixes) : StartsWith(suggested_path, para_prefixes[i])
            THEN [valid |-> FALSE, reason |-> <<"no_para_prefix">>]
       ELSE IF IsBlank(current_path) /\ suggestion_type \in {"move", "rename"}
            THEN [valid |-> FALSE, reason |-> <<"blank_current_path">>]
       ELSE IF IsBlank(suggested_path)
            THEN [valid |-> FALSE, reason |-> <<"blank_suggested_path">>]
       ELSE IF suggested_path \in Placeholders
            THEN [valid |-> FALSE, reason |-> <<"placeholder">>]
       ELSE IF suggestion_type \in {"move", "create"}
               /\ ~\E i \in 1..Len(para_prefixes) : StartsWith(suggested_path, para_prefixes[i])
            THEN [valid |-> FALSE, reason |-> <<"no_para_prefix">>]
       ELSE IF Truthy(current_path) /\ suggestion_type \in {"move", "rename"}
               /\ ~Exists(f, Join(vault_path, current_path))
            THEN [valid |-> FALSE, reason |-> <<"current_path_missing">>]
       ELSE [valid |-> TRUE, reason |-> <<>>]

\* mutant: the placeholder rule is missing
ValidateSuggestionPaths_NoPlaceholders(f, suggestion, vault_path) ==
    LET suggestion_type == suggestion.type
        current_path == suggestion.current_path
        suggested_path == suggestion.suggested_path
        hits == {i \in 1..Len(DescriptivePatterns) :
                    Contains(current_path, DescriptivePatterns[i])
                    \/ Contains(suggested_path, DescriptivePatterns[i])}
        firstHit == CHOOSE i \in hits : \A j \in hits : i <= j
    IN IF suggestion_type = "question" THEN [valid |-> TRUE, reason |-> <<>>]
       ELSE IF hits # {}
            THEN [valid |-> FALSE, reason |-> <<"descriptive", DescriptivePatterns[firstHit]>>]
       ELSE IF IsBlank(current_path) /\ suggestion_type \in {"move", "rename"}
            THEN [valid |-> FALSE, reason |-> <<"blank_current_path">>]
       ELSE IF IsBlank(suggested_path)
            THEN [valid |-> FALSE, reason |-> <<"blank_suggested_path">>]
       ELSE IF suggestion_type \in {"move", "create"}
               /\ ~\E i \in 1..Len(para_prefixes) : StartsWith(suggested_path, para_prefixes[i])
            THEN [valid |-> FALSE, reason |-> <<"no_para_prefix">>]
       ELSE IF Truthy(current_path) /\ suggestion_type \in {"move", "rename"}
               /\ ~Exists(f, Join(vault_path, current_path))
            THEN [valid |-> FALSE, reason |-> <<"current_path_missing">>]
       ELSE [valid |-> TRUE, reason |-> <<>>]

\* mutant: the PARA prefix rule is applied to create suggestions only
ValidateSuggestionPaths_PrefixForCreateOnly(f, suggestion, vault_path) ==
    LET suggestion_type == suggestion.type
        current_path == suggestion.current_path
        suggested_path == suggestion.suggested_path
        hits == {i \in 1..Len(DescriptivePatterns) :
                    Contains(current_path, DescriptivePatterns[i])
                    \/ Contains(suggested_path, DescriptivePatterns[i])}
        firstHit == CHOOSE i \in hits : \A j \in hits : i <= j
    IN IF suggestion_type = "question" THEN [valid |-> TRUE, reason |-> <<>>]
       ELSE IF hits # {}
            THEN [valid |-> FALSE, reason |-> <<"descriptive", DescriptivePatterns[firstHit]>>]
       ELSE IF IsBlank(current_path) /\ suggestion_type \in {"move", "rename"}
            THEN [valid |-> FALSE, reason |-> <<"blank_current_path">>]
       ELSE IF IsBlank(suggested_path)
            THEN [valid |-> FALSE, reason |-> <<"blank_suggested_path">>]
       ELSE IF suggested_path \in Placeholders
            THEN [valid |-> FALSE, reason |-> <<"placeholder">>]
       ELSE IF suggestion_type \in {"create"}
               /\ ~\E i \in 1..Len(para_prefixes) : StartsWith(suggested_path, para_prefixes[i])
            THEN [valid |-> FALSE, reason |-> <<"no_para_prefix">>]
       ELSE IF Truthy(current_path) /\ suggestion_type \in {"move", "rename"}
               /\ ~Exists(f, Join(vault_path, current_path))
            THEN [valid |-> FALSE, reason |-> <<"current_path_missing">>]
       ELSE [valid |-> TRUE, reason |-> <<>>]

\* [valid, reason]
ValidateSuggestionPaths(f, suggestion, vault_path) ==
    LET suggestion_type == suggestion.type
        current_path == suggestion.current_path
        suggested_path == suggestion.suggested_path
        hits == {i \in 1..Len(DescriptivePatterns) :
                    Contains(current_path, DescriptivePatterns[i])
                    \/ Contains(suggested_path, DescriptivePatterns[i])}
        firstHit == CHOOSE i \in hits : \A j \in hits : i <= j
    IN IF suggestion_type = "question" THEN [valid |-> TRUE, reason |-> <<>>]
       ELSE IF hits # {}
            THEN [valid |-> FALSE, reason |-> <<"descriptive", DescriptivePatterns[firstHit]>>]
       ELSE IF IsBlank(current_path) /\ suggestion_type \in {"move", "rename"}
            THEN [valid |-> FALSE, reason |-> <<"blank_current_path">>]
       ELSE IF IsBlank(suggested_path)
            THEN [valid |-> FALSE, reason |-> <<"blank_suggested_path">>]
       ELSE IF suggested_path \in Placeholders
            THEN [valid |-> FALSE, reason |-> <<"placeholder">>]
       ELSE IF suggestion_type \in {"move", "create"}
               /\ ~\E i \in 1..Len(para_prefixes) : StartsWith(suggested_path, para_prefixes[i])
            THEN [valid |-> FALSE, reason |-> <<"no_para_prefix">>]
       ELSE IF Truthy(current_path) /\ suggestion_type \in {"move", "rename"}
               /\ ~Exists(f, Join(vault_path, current_path))
            THEN [valid |-> FALSE, reason |-> <<"current_path_missing">>]
       ELSE [valid |-> TRUE, reason |-> <<>>]

(***************************************************************************)
(* The executors of cli.py.  Each returns                                  *)
(*   [fs, res, details, calls]                                             *)
(* where calls lists the FileOperator methods invoked, in order.           *)
(* env = [confirm, fault, at, order]: the answer to the overwrite prompt,  *)
(* the injected failure, the child operation it hits (merge), and the      *)
(* order in which iterdir yields the children.                             *)
(***************************************************************************)
ExecResult(operation, success, error) ==
    [operation |-> operation, success |-> success, error |-> error,
     dry_run |-> FALSE, raised |-> FALSE]

Outcome(f, res, details, calls) ==
    [fs |-> f, res |-> res, details |-> details, calls |-> calls]

Detail(res) == [operation |-> res.operation, success |-> res.success, error |-> res.error]

SyntheticDetail(operation) == [operation |-> operation, success |-> TRUE, error |-> NoError]

AllSucceeded(details) == \A i \in 1..Len(details) : details[i].success

\* _execute_move_suggestion (and _execute_rename_suggestion, which calls it)
ExecuteMoveSuggestion(f, dry, current_path, target_path, fault) ==
    IF ~Exists(f, current_path)
    THEN Outcome(f, ExecResult("move", FALSE, "source_missing"), <<>>, <<>>)
    ELSE LET FileMoved(r) ==
                 Outcome(r.fs, ExecResult("move", r.res.success, r.res.error),
                         <<Detail(r.res)>>, <<"move_file">>)
             DirMoved(mv) ==
                 IF mv.err # "ok"
                 THEN Outcome(mv.fs, ExecResult("move", FALSE, "move_failed"), <<>>, <<>>)
                 ELSE Outcome(mv.fs, ExecResult("move", TRUE, NoError),
                              <<SyntheticDetail("move_directory")>>, <<>>)
             ParentMade(made) ==
                 IF made.err # "ok"
                 THEN Outcome(made.fs, ExecResult("move", FALSE, "move_failed"), <<>>, <<>>)
                 ELSE IF IsFile(made.fs, current_path)
                 THEN FileMoved(MoveFile(made.fs, dry, current_path, target_path, fault))
                 ELSE DirMoved(IF dry THEN made
                               ELSE ShutilMoveDir(made.fs, current_path, target_path, fault))
         IN ParentMade(MkdirF(f, ParentPath(target_path), fault))

\* segments of the model that contain "."
DottedSegs ==
    {"note.md", "output.md", "..",
     "0. Inbox", "1. Projects", "2. Areas", "3. Resources", "4. Archives"}

\* _execute_create_suggestion
ExecuteCreateSuggestion(f, dry, target_path, fault) ==
    IF NameOf(target_path) \in DottedSegs
    THEN LET Touched(touched) ==
                 IF touched.err # "ok"
                 THEN Outcome(touched.fs, ExecResult("create", FALSE, "create_failed"),
                              <<>>, <<>>)
                 ELSE Outcome(touched.fs, ExecResult("create", TRUE, NoError),
                              <<SyntheticDetail("create_file")>>, <<>>)
             ParentMade(made) ==
                 IF made.err # "ok"
                 THEN Outcome(made.fs, ExecResult("create", FALSE, "create_failed"),
                              <<>>, <<>>)
                 ELSE Touched(IF dry THEN made ELSE Touch(made.fs, target_path))
         IN ParentMade(MkdirF(f, ParentPath(target_path), fault))
    ELSE LET Created(r) ==
                 Outcome(r.fs, ExecResult("create", r.res.success, r.res.error),
                         <<Detail(r.res)>>, <<"create_directory">>)
         IN Created(CreateDirectory(f, dry, target_path, fault))

\* the for loop of _execute_merge_suggestion over items[k..]: [exc, fs, details, calls]
RECURSIVE MergeLoop(_, _, _, _, _, _, _, _, _, _)
MergeLoop(f, dry, source_path, target_path, items, k, fault, at, moved_items, calls) ==
    IF k > Len(items)
    THEN [exc |-> NoError, fs |-> f, details |-> moved_items, calls |-> calls]
    ELSE LET item == Child(source_path, items[k])
             target_item == Child(target_path, items[k])
             flt == IF at = k THEN fault ELSE "none"
             Rest(g, details, made_calls) ==
                 MergeLoop(g, dry, source_path, target_path, items, k + 1, fault, at,
                           details, made_calls)
             FileMoved(r) ==
                 Rest(r.fs, Append(moved_items, Detail(r.res)), Append(calls, "move_file"))
             DirMoved(mv) ==
                 IF mv.err # "ok"
                 THEN [exc |-> "merge_failed", fs |-> mv.fs,
                       details |-> moved_items, calls |-> calls]
                 ELSE Rest(mv.fs, Append(moved_items, SyntheticDetail("move_directory")),
                           calls)
         IN IF IsFile(f, item)
            THEN FileMoved(MoveFile(f, dry, item, target_item, flt))
            ELSE IF IsDir(f, item)
            THEN DirMoved(IF dry THEN [err |-> "ok", fs |-> f]
                          ELSE ShutilMoveDir(f, item, target_item, flt))
            ELSE Rest(f, moved_items, calls)

\* the names source_path.iterdir() yields, read after the target was made
MergeItems(f, source_path, target_path) ==
    LET made == MkdirParents(f, target_path)
        src == Walk(made.fs, source_path).loc
    IN IF IsDir(f, source_path) /\ made.err = "ok"
       THEN {q[Len(q)] : q \in Children(made.fs, src)}
       ELSE {}

\* mutant: the source directory is removed whether or not it is empty
ExecuteMergeSuggestion_AlwaysRemoves(f, dry, source_path, target_path, fault, at, order) ==
    IF ~Exists(f, source_path) \/ ~IsDir(f, source_path)
    THEN Outcome(f, ExecResult("merge", FALSE, "source_not_a_directory"), <<>>, <<>>)
    ELSE LET Removed(loop, rm) ==
                 IF rm.err # "ok"
                 THEN Outcome(rm.fs, ExecResult("merge", FALSE, "merge_failed"),
                              <<>>, loop.calls)
                 ELSE Outcome(rm.fs,
                              ExecResult("merge", AllSucceeded(loop.details), NoError),
                              loop.details, loop.calls)
             Looped(loop) ==
                 IF loop.exc # NoError
                 THEN Outcome(loop.fs, ExecResult("merge", FALSE, "merge_failed"),
                              <<>>, loop.calls)
                 ELSE Removed(loop,
                              IF ~dry
                              THEN Rmdir(loop.fs, source_path,
                                         IF at = 0 THEN fault ELSE "none")
                              ELSE [err |-> "ok", fs |-> loop.fs])
             TargetMade(made) ==
                 IF made.err # "ok"
                 THEN Outcome(made.fs, ExecResult("merge", FALSE, "merge_failed"),
                              <<>>, <<>>)
                 ELSE Looped(MergeLoop(made.fs, dry, source_path, target_path, order, 1,
                                       fault, at, <<>>, <<>>))
         IN TargetMade(MkdirF(f, target_path, IF at = 0 THEN fault ELSE "none"))

\* _execute_merge_suggestion
ExecuteMergeSuggestion(f, dry, source_path, target_path, fault, at, order) ==
    IF ~Exists(f, source_path) \/ ~IsDir(f, source_path)
    THEN Outcome(f, ExecResult("merge", FALSE, "source_not_a_directory"), <<>>, <<>>)
    ELSE LET Removed(loop, rm) ==
                 IF rm.err # "ok"
                 THEN Outcome(rm.fs, ExecResult("merge", FALSE, "merge_failed"),
                              <<>>, loop.calls)
                 ELSE Outcome(rm.fs,
                              ExecResult("merge", AllSucceeded(loop.details), NoError),
                              loop.details, loop.calls)
             Looped(loop) ==
                 IF loop.exc # NoError
                 THEN Outcome(loop.fs, ExecResult("merge", FALSE, "merge_failed"),
                              <<>>, loop.calls)
                 ELSE Removed(loop,
                              IF ~dry /\ Children(loop.fs, Walk(loop.fs, source_path).loc) = {}
                              THEN Rmdir(loop.fs, source_path,
                                         IF at = 0 THEN fault ELSE "none")
                              ELSE [err |-> "ok", fs |-> loop.fs])
             TargetMade(made) ==
                 IF made.err # "ok"
                 THEN Outcome(made.fs, ExecResult("merge", FALSE, "merge_failed"),
                              <<>>, <<>>)
                 ELSE Looped(MergeLoop(made.fs, dry, source_path, target_path, order, 1,
                                       fault, at, <<>>, <<>>))
         IN TargetMade(MkdirF(f, target_path, IF at = 0 THEN fault ELSE "none"))

\* _display_execution_result: the banner printed for a result, "... cao1zuo4
\* zhi2xing2 cheng2gong1" for success and "... cao1zuo4 zhi2xing2 shi1bai4"
\* (operation failed) with the error text for everything else
DisplayExecutionResult(res) ==
    IF res.success THEN [banner |-> "operation_succeeded", error |-> NoError]
    ELSE [banner |-> "operation_failed", error |-> res.error]

\* the "type" of a suggestion whose JSON says "type": null; None has no lower()
NullType == "None"

\* suggestion.get("type", "").lower() of a type that is no str, outside the
\* try block of _execute_suggestion
RaisedOutcome(f) ==
    Outcome(f, [operation |-> "none", success |-> FALSE, error |-> "AttributeError",
                dry_run |-> FALSE, raised |-> TRUE], <<>>, <<>>)

\* str.lower() of the type strings of the model
Lower(s) ==
    CASE s = "MOVE" -> "move"
      [] s = "Quit" -> "quit"
      [] OTHER -> s

\* vault_path / path, with a leading "/" of the string stripped first
FullPath(vault_path, s) ==
    IF Truthy(s) /\ ~StartsWithSlash(s) THEN Join(vault_path, s)
    ELSE Join(vault_path, LStripSlash(s))

\* mutant: the final validation before the dispatch is missing
ExecuteSuggestion_NoFinalValidation(f, dry, suggestion, vault_path, env) ==
    LET suggestion_type == Lower(suggestion.type)
        current_path == suggestion.current_path
        suggested_path == suggestion.suggested_path
        v == ValidateSuggestionPaths(f, suggestion, vault_path)
        has_current == Truthy(current_path)
        current_full_path == FullPath(vault_path, current_path)
        suggested_full_path == FullPath(vault_path, suggested_path)
        Fail(error) == Outcome(f, ExecResult(suggestion_type, FALSE, error), <<>>, <<>>)
    IN IF suggestion.type = NullType THEN RaisedOutcome(f)
       ELSE IF suggestion_type \in {"move", "rename"} /\ has_current
               /\ ~Exists(f, current_full_path)
            THEN Fail("source_missing")
       ELSE IF suggestion_type \in {"move", "rename"} /\ has_current
               /\ Exists(f, suggested_full_path) /\ ~env.confirm
            THEN Fail("user_cancelled")
       ELSE IF suggestion_type \in {"move", "rename"}
            THEN IF ~has_current THEN Fail("current_path_required")
                 ELSE ExecuteMoveSuggestion(f, dry, current_full_path,
                                            suggested_full_path, env.fault)
       ELSE IF suggestion_type = "create"
            THEN ExecuteCreateSuggestion(f, dry, suggested_full_path, env.fault)
       ELSE IF suggestion_type = "merge"
            THEN IF ~has_current THEN Fail("current_path_required")
                 ELSE ExecuteMergeSuggestion(f, dry, current_full_path,
                                             suggested_full_path, env.fault,
                                             env.at, env.order)
       ELSE Fail("unsupported_type")

\* _execute_suggestion
ExecuteSuggestion(f, dry, suggestion, vault_path, env) ==
    LET suggestion_type == Lower(suggestion.type)
        current_path == suggestion.current_path
        suggested_path == suggestion.suggested_path
        v == ValidateSuggestionPaths(f, suggestion, vault_path)
        has_current == Truthy(current_path)
        current_full_path == FullPath(vault_path, current_path)
        suggested_full_path == FullPath(vault_path, suggested_path)
        Fail(error) == Outcome(f, ExecResult(suggestion_type, FALSE, error), <<>>, <<>>)
    IN IF suggestion.type = NullType THEN RaisedOutcome(f)
       ELSE IF ~v.valid THEN Fail("validation_failed")
       ELSE IF suggestion_type \in {"move", "rename"} /\ has_current
               /\ ~Exists(f, current_full_path)
            THEN Fail("source_missing")
       ELSE IF suggestion_type \in {"move", "rename"} /\ has_current
               /\ Exists(f, suggested_full_path) /\ ~env.confirm
            THEN Fail("user_cancelled")
       ELSE IF suggestion_type \in {"move", "rename"}
            THEN IF ~has_current THEN Fail("current_path_required")
                 ELSE ExecuteMoveSuggestion(f, dry, current_full_path,
                                            suggested_full_path, env.fault)
       ELSE IF suggestion_type = "create"
            THEN ExecuteCreateSuggestion(f, dry, suggested_full_path, env.fault)
       ELSE IF suggestion_type = "merge"
            THEN IF ~has_current THEN Fail("current_path_required")
                 ELSE ExecuteMergeSuggestion(f, dry, current_full_path,
                                             suggested_full_path, env.fault,
                                             env.at, env.order)
       ELSE Fail("unsupported_type")

(***************************************************************************)
(* JSON values as Python holds them.  A value is [kind, fields]: an object *)
(* (dict) with its set of <<key, text>> pairs, null (None), a string, or   *)
(* Unset for an attribute that was never assigned.                         *)
(***************************************************************************)
JObject(fields) == [kind |-> "object", fields |-> fields]

JNull == [kind |-> "null", fields |-> {}]

JString(s) == [kind |-> "string", fields |-> {<<"", s>>}]

Unset == [kind |-> "unset", fields |-> {}]

\* bool(v)
PyTruthy(v) ==
    CASE v.kind = "object" -> v.fields # {}
      [] v.kind = "string" -> v.fields # {<<"", "">>}
      [] OTHER -> FALSE

\* whether v has a copy() method
HasCopy(v) == v.kind = "object"

(***************************************************************************)
(* LLMClient: the conversation methods.  A response of chat_completion is  *)
(* [form, body]: the call raised ("error"), the text is no JSON ("text",   *)
(* as the mock reply is), it is JSON ("json"), JSON in a ```json fence     *)
(* ("fenced") or JSON inside prose ("embedded").  body is the JSON value   *)
(* written in the text: [kind, ai_message, has_adjusted, adjusted].        *)
(***************************************************************************)
Body(kind, ai_message, has_adjusted, adjusted) ==
    [kind |-> kind, ai_message |-> ai_message,
     has_adjusted |-> has_adjusted, adjusted |-> adjusted]

Response(form, body) == [form |-> form, body |-> body]

NoBody == Body("none", FALSE, FALSE, JNull)

\* _parse_json_response: [err, value]
ParseJsonResponse(response) ==
    IF response.form \in {"json", "fenced"}
    THEN [err |-> "ok", value |-> response.body]
    ELSE IF response.form = "embedded" /\ response.body.kind = "object"
    THEN \* json.loads fails on the whole text, the text from "{" to "}" parses
         [err |-> "ok", value |-> response.body]
    ELSE [err |-> "JSONDecodeError", value |-> NoBody]

Message(role, content) == [role |-> role, content |-> content]

\* mutant: the suggestion is not kept as the draft
StartSuggestionConversation_NoSnapshot(s) ==
    [conversation_history |-> <<Message("assistant", "initial")>>,
     current_suggestion |-> JNull]

\* start_suggestion_conversation: [conversation_history, current_suggestion]
StartSuggestionConversation(s) ==
    [conversation_history |-> <<Message("assistant", "initial")>>,
     current_suggestion |-> s]

TalkResult(success, error, has_updated, updated_suggestion) ==
    [success |-> success, error |-> error,
     has_updated |-> has_updated, updated_suggestion |-> updated_suggestion]

NoTalkResult == TalkResult(FALSE, "none", FALSE, JNull)

\* mutant: the draft is updated field by field, the fields the adjusted
\* suggestion lacks are kept
AdjustedSuggestion_Merged(parsed, draft) ==
    IF ~parsed.has_adjusted THEN draft
    ELSE IF parsed.adjusted.kind = "object" /\ draft.kind = "object"
    THEN JObject(parsed.adjusted.fields
                 \cup {kv \in draft.fields :
                         \A nv \in parsed.adjusted.fields : nv[1] # kv[1]})
    ELSE parsed.adjusted

\* parsed_response.get("adjusted_suggestion", self.current_suggestion)
AdjustedSuggestion(parsed, draft) ==
    IF parsed.has_adjusted THEN parsed.adjusted ELSE draft

\* mutant: a reply that is no JSON drops the user turn and the draft
OnJSONDecodeError_Reset(history, draft) ==
    [conversation_history |-> SubSeq(history, 1, Len(history) - 1),
     current_suggestion |-> JNull,
     result |-> TalkResult(FALSE, "json_parse_failed", TRUE, JNull)]

\* except json.JSONDecodeError
OnJSONDecodeError(history, draft) ==
    [conversation_history |-> history,
     current_suggestion |-> draft,
     result |-> TalkResult(FALSE, "json_parse_failed", TRUE, draft)]

\* _build_conversation_prompt reads self.current_suggestion, which __init__
\* does not assign, after the user turn was appended and before the try
\* block: on a client without a started conversation the call leaves
\* continue_suggestion_conversation as an AttributeError
ContinueSuggestionConversationRaises(draft) == draft.kind = "unset"

\* mutant: a call that fails takes the user turn back out of the transcript
ContinueSuggestionConversation_FailureDropsTurn(history, draft, user_input, response) ==
    LET said == Append(history, Message("user", user_input))
        Failed == [conversation_history |-> history,
                   current_suggestion |-> draft,
                   result |-> TalkResult(FALSE, "conversation_failed", FALSE, JNull)]
        Parsed(parsed) ==
            IF parsed.err # "ok" THEN OnJSONDecodeError(said, draft)
            ELSE IF parsed.value.kind # "object" THEN Failed
            ELSE [conversation_history |->
                      Append(said, Message("assistant",
                                           IF parsed.value.ai_message
                                           THEN "ai_message" ELSE "raw_response")),
                  current_suggestion |-> AdjustedSuggestion(parsed.value, draft),
                  result |-> TalkResult(TRUE, NoError, TRUE,
                                        AdjustedSuggestion(parsed.value, draft))]
    IN IF ContinueSuggestionConversationRaises(draft)
       THEN [conversation_history |-> said,
             current_suggestion |-> draft,
             result |-> TalkResult(FALSE, "AttributeError", FALSE, JNull)]
       ELSE IF response.form = "error" THEN Failed
       ELSE Parsed(ParseJsonResponse(response))

\* continue_suggestion_conversation, conversation_history being set by
\* __init__: [conversation_history, current_suggestion, result]; the result
\* of a call that raised is no return value, its error names the exception
ContinueSuggestionConversation(history, draft, user_input, response) ==
    LET said == Append(history, Message("user", user_input))
        Failed == [conversation_history |-> said,
                   current_suggestion |-> draft,
                   result |-> TalkResult(FALSE, "conversation_failed", FALSE, JNull)]
        Parsed(parsed) ==
            IF parsed.err # "ok" THEN OnJSONDecodeError(said, draft)
            ELSE IF parsed.value.kind # "object" THEN Failed
            ELSE [conversation_history |->
                      Append(said, Message("assistant",
                                           IF parsed.value.ai_message
                                           THEN "ai_message" ELSE "raw_response")),
                  current_suggestion |-> AdjustedSuggestion(parsed.value, draft),
                  result |-> TalkResult(TRUE, NoError, TRUE,
                                        AdjustedSuggestion(parsed.value, draft))]
    IN IF ContinueSuggestionConversationRaises(draft)
       THEN [conversation_history |-> said,
             current_suggestion |-> draft,
             result |-> TalkResult(FALSE, "AttributeError", FALSE, JNull)]
       ELSE IF response.form = "error" THEN Failed
       ELSE Parsed(ParseJsonResponse(response))

\* get_final_suggestion: [raised, value]
GetFinalSuggestion(draft) ==
    IF draft.kind = "unset" THEN [raised |-> FALSE, value |-> JNull]
    ELSE IF HasCopy(draft) THEN [raised |-> FALSE, value |-> draft]
    ELSE [raised |-> TRUE, value |-> JNull]

(***************************************************************************)
(* _interactive_discussion                                                 *)
(***************************************************************************)
max_conversations == 10

\* the number of counted turns after which the user is asked for satisfaction
MinTurnsBeforeAsking == 3

ExitKeywords == {"exit", "quit", "tui4chu1", "jie2shu4"}

\* str.strip() of the inputs of the model
Strip(s) == IF s \in WhitespaceSegs THEN "" ELSE s

Turn(op, user_input, response, result, confirmed, satisfied) ==
    [op |-> op, user_input |-> user_input, response |-> response,
     result |-> result, confirmed |-> confirmed, satisfied |-> satisfied]

NoResponse == Response("none", NoBody)

\* the end of _interactive_discussion after the loop: [session, returned]
Finish(draft) ==
    LET final_suggestion == GetFinalSuggestion(draft)
    IN IF final_suggestion.raised THEN [session |-> "Raised", returned |-> JNull]
       ELSE IF PyTruthy(final_suggestion.value)
       THEN [session |-> "Resolved", returned |-> final_suggestion.value]
       ELSE [session |-> "Cancelled", returned |-> JNull]

(***************************************************************************)
(* chat_completion and the single-shot calls built on it                   *)
(***************************************************************************)
max_retries == 3

\* what one API attempt can do: give a non-empty content, give an empty
\* response or content (raised as Exception inside the try), or raise
\* RateLimitError, another APIError, or anything else
FailureKinds == {"rate_limit", "api_error", "empty", "other"}

RECURSIVE Pow2(_)
Pow2(n) == IF n = 0 THEN 1 ELSE 2 * Pow2(n - 1)

\* the argument of time.sleep after a failure in the attempt numbered n from 0
WaitTime(kind, n) == IF kind = "rate_limit" THEN Pow2(n) ELSE 1

\* mutant: only rate limiting is retried, any other failure ends the call
AttemptFailed_RateLimitOnly(made, kind, failed, slept) ==
    IF made < max_retries - 1 /\ kind = "rate_limit"
    THEN [chat_state |-> "trying", failures |-> Append(failed, kind),
          waits |-> Append(slept, WaitTime(kind, made))]
    ELSE [chat_state |-> "raised", failures |-> Append(failed, kind), waits |-> slept]

\* an except clause of the retry loop, made attempts having gone before:
\* sleep and continue, or fall out of the loop to the raise
AttemptFailed(made, kind, failed, slept) ==
    IF made < max_retries - 1
    THEN [chat_state |-> "trying", failures |-> Append(failed, kind),
          waits |-> Append(slept, WaitTime(kind, made))]
    ELSE [chat_state |-> "raised", failures |-> Append(failed, kind), waits |-> slept]

\* _mock_response for the prompts of classify_note and optimize_structure
MockResponse == Response("json", Body("object", FALSE, FALSE, JNull))

CallResult(done, raised, success, keys) ==
    [done |-> done, raised |-> raised, success |-> success, keys |-> keys]

NoCallResult == CallResult(FALSE, FALSE, FALSE, {})

\* classify_note once chat_completion returned (state "returned") or raised
ClassifyNote(state, response) ==
    IF state = "returned" /\ ParseJsonResponse(response).err = "ok"
    THEN CallResult(TRUE, FALSE, TRUE,
                    {"success", "classification", "raw_response", "provider", "model"})
    ELSE CallResult(TRUE, FALSE, FALSE,
                    {"success", "error", "raw_response", "provider", "model"})

\* optimize_structure once chat_completion returned or raised
OptimizeStructure(state, response) ==
    IF state = "returned" /\ ParseJsonResponse(response).err = "ok"
    THEN CallResult(TRUE, FALSE, TRUE,
                    {"success", "optimization", "raw_response", "provider", "model"})
    ELSE CallResult(TRUE, FALSE, FALSE, {"success", "error", "provider", "model"})

\* the calling method's return once chat_completion is over
CallerReturn(method, state, response) ==
    IF state = "trying" THEN NoCallResult
    ELSE IF method = "classify_note" THEN ClassifyNote(state, response)
    ELSE OptimizeStructure(state, response)

(***************************************************************************)
(* The suggestion history of FileOperator.  The backing document           *)
(* suggestion_history.json is [state, records]: absent, valid with the     *)
(* records written, or corrupt (a write that stopped after truncating).    *)
(***************************************************************************)
Document(state, records) == [state |-> state, records |-> records]

\* mutant: the record keeps the final suggestion in both fields
HistoryRecord_FinalAsOriginal(timestamp, suggestion_id, user_decision, original_suggestion, final_suggestion) ==
    [timestamp |-> timestamp,
     suggestion_id |-> suggestion_id, user_decision |-> user_decision,
     original_suggestion |-> final_suggestion,
     final_suggestion |-> final_suggestion]

HistoryRecord(timestamp, suggestion_id, user_decision, original_suggestion, final_suggestion) ==
    [timestamp |-> timestamp,
     suggestion_id |-> suggestion_id, user_decision |-> user_decision,
     original_suggestion |-> original_suggestion,
     final_suggestion |-> final_suggestion]

\* mutant: the save writes the newest record only
SaveSuggestionHistory_LatestOnly(doc, history, fault) ==
    IF fault = "open" THEN doc
    ELSE IF fault = "dump" THEN Document("corrupt", <<>>)
    ELSE Document("valid", <<history[Len(history)]>>)

\* _save_suggestion_history: the document after the call.  open(..., "w")
\* raising leaves it as it was, json.dump raising leaves a truncated file
SaveSuggestionHistory(doc, history, fault) ==
    IF fault = "open" THEN doc
    ELSE IF fault = "dump" THEN Document("corrupt", <<>>)
    ELSE Document("valid", history)

\* mutant: suggestion_id is the length of the history before the append
RecordSuggestionHistory_IdFromLength(history, doc, now, original_suggestion, final_suggestion, user_decision, fault) ==
    LET record == HistoryRecord(now, Len(history), user_decision,
                                original_suggestion,
                                IF PyTruthy(final_suggestion) THEN final_suggestion
                                ELSE original_suggestion)
        Saved(appended) ==
            [suggestion_history |-> appended,
             document |-> SaveSuggestionHistory(doc, appended, fault)]
    IN Saved(Append(history, record))

\* record_suggestion_history: [suggestion_history, document]
RecordSuggestionHistory(history, doc, now, original_suggestion, final_suggestion, user_decision, fault) ==
    LET record == HistoryRecord(now, Len(history) + 1, user_decision,
                                original_suggestion,
                                IF PyTruthy(final_suggestion) THEN final_suggestion
                                ELSE original_suggestion)
        Saved(appended) ==
            [suggestion_history |-> appended,
             document |-> SaveSuggestionHistory(doc, appended, fault)]
    IN Saved(Append(history, record))

\* mutant: a missing document empties the in-memory history
LoadSuggestionHistory_AbsentClears(history, doc, fault) ==
    IF doc.state = "absent" THEN <<>>
    ELSE IF doc.state = "corrupt" \/ fault # "none" THEN history
    ELSE doc.records

\* load_suggestion_history: the in-memory history after the call
LoadSuggestionHistory(history, doc, fault) ==
    IF doc.state = "absent" THEN history
    ELSE IF doc.state = "corrupt" \/ fault # "none" THEN history
    ELSE doc.records

\* load_suggestion_history: history_file.exists() stands before the try; a
\* stat() failure pathlib does not ignore (EACCES, EIO) leaves the method as
\* an exception
LoadSuggestionHistoryRaises(fault) == fault = "stat"

(***************************************************************************)
(* The calls of one run.  last records the latest call and its result,     *)
(* pre the filesystem it started from.                                     *)
(***************************************************************************)
NoPath == MkPath(FALSE, <<>>)

NoResult ==
    [operation |-> "none", success |-> FALSE, error |-> NoError,
     dry_run |-> FALSE, raised |-> FALSE]

NoSuggestion == [type |-> "", current_path |-> EmptyStr, suggested_path |-> EmptyStr]

Call(op, a, b, sugg, fault, res, details, calls) ==
    [op |-> op, a |-> a, b |-> b, sugg |-> sugg, fault |-> fault,
     res |-> res, details |-> details, calls |-> calls]

InitFs ==
    (<<>> :> DirNode)
    @@ (<<"etc">> :> DirNode)
    @@ (<<"work">> :> DirNode)
    @@ (<<"vault">> :> DirNode)
    @@ (<<"vault", "0. Inbox">> :> DirNode)
    @@ (<<"vault", "0. Inbox", "note.md">> :> FileNode("A"))
    @@ (<<"vault", "0. Inbox", "sub">> :> DirNode)
    @@ (<<"vault", "1. Projects">> :> DirNode)
    @@ (<<"vault", "1. Projects", "note.md">> :> FileNode("B"))
    @@ (<<"vault", "2. Areas">> :> DirNode)
    @@ (<<"vault", "2. Areas", "sub">> :> DirNode)
    @@ (<<"vault", " ">> :> DirNode)

StoreOp(op, fault) == [op |-> op, fault |-> fault]

\* the branch an iteration of the optimize loop took: its name, the
\* user_decision values recorded, whether a suggestion was executed
Branch(name, decisions, executed) ==
    [name |-> name, decisions |-> decisions, executed |-> executed]

NoBranch == Branch("none", <<>>, FALSE)

\* a call of a client method: the suggestion given, the transcript and the
\* draft before it, whether it raised, and the record it returned
ClientCall(op, given, before_history, before_draft, raised, result) ==
    [op |-> op, given |-> given, before_history |-> before_history,
     before_draft |-> before_draft, raised |-> raised, result |-> result]

\* an entry of the log of store operations
StoreEntry(op, fault, user_decision, raised) ==
    [op |-> op, fault |-> fault, user_decision |-> user_decision, raised |-> raised]

Init ==
    /\ fs = InitFs
    /\ pre = InitFs
    /\ last = Call("none", NoPath, NoPath, NoSuggestion, "none", NoResult, <<>>, <<>>)
    /\ dry_run \in BOOLEAN
    /\ steps = 0
    /\ repeat = "n/a"
    /\ session = "Idle"
    /\ conversation_count = 0
    /\ local_suggestion = JNull
    /\ conversation_history = <<>>
    /\ current_suggestion = Unset
    /\ submitted = 0
    /\ turn = Turn("none", "", NoResponse, NoTalkResult, FALSE, FALSE)
    /\ returned = JNull
    /\ document = Document("absent", <<>>)
    /\ suggestion_history = <<>>
    /\ store_op = StoreOp("none", "none")
    /\ store_steps = 0
    /\ store_log = <<>>
    /\ chat_state = "idle"
    /\ caller = "none"
    /\ attempt = 0
    /\ failures = <<>>
    /\ waits = <<>>
    /\ reply = NoResponse
    /\ call_result = NoCallResult
    /\ opt_state = "idle"
    /\ handled = 0
    /\ remaining = 0
    /\ branch = NoBranch
    /\ objects = <<>>
    /\ suggestion_ref = 0
    /\ draft_ref = 0
    /\ proposed = JNull
    /\ client_call = ClientCall("none", JNull, <<>>, Unset, FALSE, NoTalkResult)
    /\ client_steps = 0
    /\ classification = Classification(PyNone, PyNoneList)

\* the paths handed to FileOperator directly
OpPaths ==
    { MkPath(TRUE, <<"vault", "0. Inbox", "note.md">>),
      MkPath(TRUE, <<"vault", "3. Resources", "Topic", "note.md">>),
      MkPath(TRUE, <<"vault", "1. Projects", "note.md">>),
      MkPath(TRUE, <<"vault", "0. Inbox", "note.md", "x">>),
      MkPath(TRUE, <<"vault", "..", "out", "note.md">>),
      MkPath(TRUE, <<"etc", "note.md">>),
      MkPath(FALSE, <<"~", "note.md">>),
      MkPath(FALSE, <<>>),
      MkPath(TRUE, <<>>) }

\* the failures that can make a difference to a move_file call
MoveFaults(f, dry, source, target) ==
    IF ~(IsSafePath(source) /\ IsSafePath(target) /\ IsFile(f, source) /\ ~Exists(f, target))
    THEN {"none"}
    ELSE IF dry THEN {"none", "mkdir"} ELSE FileFaults

MoveFileCall ==
    /\ steps < MaxOps
    /\ \E source \in OpPaths, target \in OpPaths :
       \E fault \in MoveFaults(fs, dry_run, source, target) :
         LET r == MoveFile(fs, dry_run, source, target, fault)
         IN /\ fs' = r.fs
            /\ pre' = fs
            /\ last' = Call("move_file", source, target, NoSuggestion, fault,
                            r.res, <<>>, <<"move_file">>)
    /\ steps' = steps + 1
    /\ repeat' = "n/a"
    /\ UNCHANGED <<dry_run, talkVars, storeVars, chatVars, optVars, clientVars, classifyVars>>

CreateDirectoryCall ==
    /\ steps < MaxOps
    /\ \E directory_path \in OpPaths, fault \in {"none", "mkdir"} :
         LET r == CreateDirectory(fs, dry_run, directory_path, fault)
         IN /\ fs' = r.fs
            /\ pre' = fs
            /\ last' = Call("create_directory", directory_path, NoPath,
                            NoSuggestion, fault, r.res, <<>>, <<"create_directory">>)
            /\ repeat' = IF last.op = "create_directory" /\ last.a = directory_path
                         THEN (IF last.res.success THEN "after_success" ELSE "after_failure")
                         ELSE "n/a"
    /\ steps' = steps + 1
    /\ UNCHANGED <<dry_run, talkVars, storeVars, chatVars, optVars, clientVars, classifyVars>>

Next == MoveFileCall \/ CreateDirectoryCall

Spec == Init /\ [][Next]_vars

(***************************************************************************)
(* Suggestions handed to _execute_suggestion                               *)
(***************************************************************************)
Suggestion(type, current_path, suggested_path) ==
    [type |-> type, current_path |-> current_path, suggested_path |-> suggested_path]

SuggestionTypes ==
    {"move", "rename", "create", "merge", "question", "MOVE", "delete", NullType}

CurrentPaths ==
    { EmptyStr,
      Str(FALSE, <<"0. Inbox", "note.md">>),
      Str(FALSE, <<"0. Inbox">>),
      Str(FALSE, <<"2. Areas">>),
      Str(FALSE, <<"3. Resources", "Topic">>),
      Str(FALSE, <<"he2shi4de mu4lu4">>),
      Str(FALSE, <<" ">>) }

SuggestedPaths ==
    { EmptyStr,
      Str(FALSE, <<"TBD">>),
      Str(FALSE, <<"3. Resources", "Topic", "note.md">>),
      Str(FALSE, <<"3. Resources", "Topic">>),
      Str(FALSE, <<"3. Resources", "~", "note.md">>),
      Str(FALSE, <<"1. Projects">>),
      Str(FALSE, <<"2. Areas">>),
      Str(FALSE, <<"0. Inbox", "note.md", "sub", "note.md">>),
      Str(FALSE, <<"random", "output.md">>) }

\* the failures injected into the move_file calls an executor makes
ExecFileFaults == {"none", "mkdir", "copy_partial", "unlink"}

Perms(S) ==
    {s \in [1..Cardinality(S) -> S] : \A i, j \in 1..Cardinality(S) : i # j => s[i] # s[j]}

Env(confirm, fault, at, order) ==
    [confirm |-> confirm, fault |-> fault, at |-> at, order |-> order]

\* the failures that can hit the k-th child operation of a merge
ChildFaults(f, item) ==
    IF IsFile(f, item) THEN ExecFileFaults \ {"none", "mkdir"} ELSE {"rename"}

\* the environments that make a difference to the execution of a suggestion
Envs(f, dry, suggestion) ==
    LET type == Lower(suggestion.type)
        v == ValidateSuggestionPaths(f, suggestion, VaultPath)
        cur == FullPath(VaultPath, suggestion.current_path)
        sug == FullPath(VaultPath, suggestion.suggested_path)
        has_current == Truthy(suggestion.current_path)
        confirms == IF Exists(f, sug) THEN BOOLEAN ELSE {FALSE}
    IN IF ~v.valid \/ type \notin {"move", "rename", "create", "merge"}
       THEN {Env(FALSE, "none", 0, <<>>)}
       ELSE IF type = "create"
       THEN {Env(FALSE, ft, 0, <<>>) : ft \in {"none", "mkdir"}}
       ELSE IF ~has_current \/ ~Exists(f, cur)
       THEN {Env(FALSE, "none", 0, <<>>)}
       ELSE IF type = "merge" /\ ~IsDir(f, cur)
       THEN {Env(FALSE, "none", 0, <<>>)}
       ELSE IF type \in {"move", "rename"}
       THEN {Env(c, ft, 0, <<>>) :
               c \in confirms,
               ft \in (IF dry THEN {"none", "mkdir"}
                       ELSE IF IsFile(f, cur) THEN ExecFileFaults
                       ELSE {"none", "mkdir", "rename"})}
       ELSE {Env(FALSE, ft, 0, o) :
               ft \in (IF dry THEN {"none", "mkdir"} ELSE {"none", "mkdir", "rmdir"}),
               o \in Perms(MergeItems(f, cur, sug))}
            \cup
            UNION {UNION {{Env(FALSE, ft, k, o) :
                             ft \in ChildFaults(f, Child(cur, o[k]))} :
                          k \in {i \in 1..Len(o) : ~dry}} :
                   o \in Perms(MergeItems(f, cur, sug))}

ExecuteSuggestionCall ==
    /\ steps < MaxExecs
    /\ \E type \in SuggestionTypes, current_path \in CurrentPaths,
          suggested_path \in SuggestedPaths :
         LET suggestion == Suggestion(type, current_path, suggested_path)
         IN \E env \in Envs(fs, dry_run, suggestion) :
            \E r \in {ExecuteSuggestion(fs, dry_run, suggestion, VaultPath, env)} :
                 /\ fs' = r.fs
                 /\ pre' = fs
                 /\ last' = Call("execute_suggestion",
                                 FullPath(VaultPath, current_path),
                                 FullPath(VaultPath, suggested_path),
                                 suggestion, env.fault, r.res, r.details, r.calls)
    /\ steps' = steps + 1
    /\ repeat' = "n/a"
    /\ UNCHANGED <<dry_run, talkVars, storeVars, chatVars, optVars, clientVars, classifyVars>>

NextExec == ExecuteSuggestionCall

SpecExec == Init /\ [][NextExec]_vars

(***************************************************************************)
(* FileOperator.execute_classification                                     *)
(***************************************************************************)
\* a FileOperator call as it was made: the method, its path, its result
OperatorCall(path, res) == [operation |-> res.operation, path |-> path, res |-> res]

\* the state of execute_classification after a step: the exception raised if
\* any, whether a creation failed, result["operations"], the calls made
Classified(exc, failed, f, operations, calls) ==
    [exc |-> exc, failed |-> failed, fs |-> f, operations |-> operations, calls |-> calls]

\* mutant: a failed creation does not end the loop
RECURSIVE CreateDirectories_NoEarlyReturn(_, _, _, _, _, _, _, _)
CreateDirectories_NoEarlyReturn(f, dry, vault_path, create_dirs, k, env, operations, calls) ==
    IF k > Len(create_dirs) THEN Classified(NoError, FALSE, f, operations, calls)
    ELSE IF create_dirs[k].is_none THEN Classified("TypeError", FALSE, f, operations, calls)
    ELSE LET full_dir_path == Join(vault_path, create_dirs[k].value)
             Created(r) ==
                 CreateDirectories_NoEarlyReturn(r.fs, dry, vault_path, create_dirs, k + 1, env,
                                   Append(operations, r.res),
                                   Append(calls, OperatorCall(full_dir_path, r.res)))
         IN Created(CreateDirectory(f, dry, full_dir_path,
                                    IF env.at = k THEN env.fault ELSE "none"))

\* the for loop over create_directories, from the k-th entry on
RECURSIVE CreateDirectories(_, _, _, _, _, _, _, _)
CreateDirectories(f, dry, vault_path, create_dirs, k, env, operations, calls) ==
    IF k > Len(create_dirs) THEN Classified(NoError, FALSE, f, operations, calls)
    ELSE IF create_dirs[k].is_none THEN Classified("TypeError", FALSE, f, operations, calls)
    ELSE LET full_dir_path == Join(vault_path, create_dirs[k].value)
             Created(r) ==
                 IF ~r.res.success
                 THEN Classified(NoError, TRUE, r.fs, Append(operations, r.res),
                                 Append(calls, OperatorCall(full_dir_path, r.res)))
                 ELSE CreateDirectories(r.fs, dry, vault_path, create_dirs, k + 1, env,
                                        Append(operations, r.res),
                                        Append(calls, OperatorCall(full_dir_path, r.res)))
         IN Created(CreateDirectory(f, dry, full_dir_path,
                                    IF env.at = k THEN env.fault ELSE "none"))

\* the result dict of execute_classification
ClassifyResult(success, error, dry) ==
    [operation |-> "execute_classification", success |-> success, error |-> error,
     dry_run |-> dry, raised |-> FALSE]

\* execute_classification: [fs, res, details, calls], details being
\* result["operations"]
ExecuteClassification(f, dry, source_file, cls, vault_path, env) ==
    LET Caught(exc, made) ==
            Outcome(made.fs, ClassifyResult(FALSE, exc, dry), made.operations, made.calls)
        Moved(made, target_path, r) ==
            Outcome(r.fs,
                    ClassifyResult(r.res.success,
                                   IF r.res.success THEN NoError ELSE "move_failed", dry),
                    Append(made.operations, r.res),
                    Append(made.calls, OperatorCall(target_path, r.res)))
        Made(made, target_path) ==
            IF made.exc # NoError THEN Caught(made.exc, made)
            ELSE IF made.failed THEN Caught("create_directory_failed", made)
            ELSE Moved(made, target_path,
                       MoveFile(made.fs, dry, source_file, target_path,
                                IF env.at = 0 THEN env.fault ELSE "none"))
    IN IF cls.target_path.is_none \/ cls.create_directories.is_none
       THEN Caught("TypeError", Classified("TypeError", FALSE, f, <<>>, <<>>))
       ELSE Made(CreateDirectories(f, dry, vault_path, cls.create_directories.items, 1,
                                   env, <<>>, <<>>),
                 Join(vault_path, cls.target_path.value))

(***************************************************************************)
(* Classifications handed to execute_classification                        *)
(***************************************************************************)
ClassifySources ==
    { MkPath(TRUE, <<"vault", "0. Inbox", "note.md">>),
      MkPath(TRUE, <<"vault", "0. Inbox", "missing.md">>) }

ClassifyTargets ==
    { PyStr(Str(FALSE, <<"3. Resources", "Topic", "note.md">>)),
      PyStr(Str(FALSE, <<"1. Projects", "note.md">>)),
      PyStr(EmptyStr),
      PyNone }

ClassifyDirectories ==
    { PyList(<<>>),
      PyList(<<PyStr(Str(FALSE, <<"3. Resources">>))>>),
      PyList(<<PyStr(Str(FALSE, <<"3. Resources">>)),
               PyStr(Str(FALSE, <<"3. Resources", "Topic">>))>>),
      PyList(<<PyStr(Str(FALSE, <<"1. Projects">>)),
               PyStr(Str(FALSE, <<"0. Inbox", "note.md", "x">>)),
               PyStr(Str(FALSE, <<"3. Resources", "Topic">>))>>),
      PyList(<<PyStr(Str(FALSE, <<"3. Resources">>)), PyNone>>),
      PyNoneList }

\* the failures injected: into the move (at = 0) or the k-th creation
ClassifyEnvs(dry, create_directories) ==
    {Env(FALSE, ft, 0, <<>>) : ft \in (IF dry THEN {"none", "mkdir"} ELSE ExecFileFaults)}
    \cup {Env(FALSE, "mkdir", k, <<>>) :
            k \in {i \in 1..Len(create_directories.items) : ~dry}}

ExecuteClassificationCall ==
    /\ steps < MaxClassifications
    /\ \E source_file \in ClassifySources, target_path \in ClassifyTargets,
          create_directories \in ClassifyDirectories :
       \E env \in ClassifyEnvs(dry_run, create_directories) :
       \E r \in {ExecuteClassification(fs, dry_run, source_file,
                                       Classification(target_path, create_directories),
                                       VaultPath, env)} :
         /\ fs' = r.fs
         /\ pre' = fs
         /\ classification' = Classification(target_path, create_directories)
         /\ last' = Call("execute_classification", source_file,
                         Join(VaultPath, target_path.value), NoSuggestion, env.fault,
                         r.res, r.details, r.calls)
    /\ steps' = steps + 1
    /\ repeat' = "n/a"
    /\ UNCHANGED <<dry_run, talkVars, storeVars, chatVars, optVars, clientVars>>

NextClassify == ExecuteClassificationCall

SpecClassify == Init /\ [][NextClassify]_vars

(***************************************************************************)
(* A discussion session: _interactive_discussion, one action per kind of   *)
(* loop iteration                                                          *)
(***************************************************************************)
\* the suggestion under discussion and the drafts the replies carry
OriginalSuggestion ==
    JObject({<<"type", "move">>, <<"current_path", "0. Inbox/note.md">>,
             <<"suggested_path", "he2shi4de mu4lu4">>, <<"reasoning", "r0">>})

RevisedSuggestion ==
    JObject({<<"type", "move">>, <<"current_path", "0. Inbox/note.md">>,
             <<"suggested_path", "3. Resources/Topic/note.md">>,
             <<"reasoning", "r1">>, <<"changes_made", "c1">>})

\* adjusted_suggestion values that are no full suggestion: an object with one
\* field, an empty object, null, a string
OddDrafts ==
    { JObject({<<"suggested_path", "1. Projects">>}),
      JObject({}),
      JNull,
      JString("just text") }

Responses ==
    { Response("error", NoBody),
      Response("text", NoBody),
      Response("json", Body("array", FALSE, FALSE, JNull)),
      Response("fenced", Body("object", TRUE, FALSE, JNull)),
      Response("embedded", Body("object", TRUE, TRUE, RevisedSuggestion)) }
    \cup {Response("json", Body("object", TRUE, TRUE, d)) : d \in OddDrafts}

UserInputs == {" ", "Quit", "rename it"}

\* llm_client.start_suggestion_conversation(suggestion) and the locals
StartDiscussion ==
    /\ session = "Idle"
    /\ \E started \in {StartSuggestionConversation(OriginalSuggestion)} :
         /\ conversation_history' = started.conversation_history
         /\ current_suggestion' = started.current_suggestion
    /\ session' = "Active"
    /\ local_suggestion' = OriginalSuggestion
    /\ conversation_count' = 0
    /\ submitted' = 0
    /\ turn' = Turn("start", "", NoResponse, NoTalkResult, FALSE, FALSE)
    /\ returned' = JNull
    /\ UNCHANGED <<fileVars, storeVars, chatVars, optVars, clientVars, classifyVars>>

\* an iteration with an empty input: continue
BlankInput ==
    /\ session = "Active"
    /\ \E user_input \in UserInputs :
         /\ Strip(user_input) = ""
         /\ turn' = Turn("blank", user_input, NoResponse, NoTalkResult, FALSE, FALSE)
    /\ UNCHANGED <<session, conversation_count, local_suggestion, conversation_history,
                   current_suggestion, submitted, returned, fileVars, storeVars, chatVars, optVars, clientVars, classifyVars>>

\* mutant: the answer to the confirmation is ignored
ExitInput_DeclineIgnored ==
    /\ session = "Active"
    /\ \E user_input \in UserInputs, confirmed \in BOOLEAN :
         /\ Strip(user_input) # ""
         /\ Lower(Strip(user_input)) \in ExitKeywords
         /\ turn' = Turn("exit", user_input, NoResponse, NoTalkResult, confirmed, FALSE)
         /\ session' = "Cancelled"
    /\ returned' = JNull
    /\ UNCHANGED <<conversation_count, local_suggestion, conversation_history,
                   current_suggestion, submitted, fileVars, storeVars, chatVars, optVars, clientVars, classifyVars>>

\* an iteration with an exit keyword: return None when confirmed, else continue
ExitInput ==
    /\ session = "Active"
    /\ \E user_input \in UserInputs, confirmed \in BOOLEAN :
         /\ Strip(user_input) # ""
         /\ Lower(Strip(user_input)) \in ExitKeywords
         /\ turn' = Turn("exit", user_input, NoResponse, NoTalkResult, confirmed, FALSE)
         /\ session' = IF confirmed THEN "Cancelled" ELSE "Active"
    /\ returned' = JNull
    /\ UNCHANGED <<conversation_count, local_suggestion, conversation_history,
                   current_suggestion, submitted, fileVars, storeVars, chatVars, optVars, clientVars, classifyVars>>

\* mutant: the user is asked for satisfaction after every counted turn
SatisfactionAnswers_FromFirstTurn(count) ==
    IF count >= 1 THEN BOOLEAN ELSE {FALSE}

\* the answers to "are you satisfied", asked once 3 turns are counted
SatisfactionAnswers(count) ==
    IF count >= MinTurnsBeforeAsking THEN BOOLEAN ELSE {FALSE}

\* an iteration that submits the input to the AI
TalkTurn ==
    /\ session = "Active"
    /\ submitted < MaxSubmitted
    /\ \E user_input \in UserInputs, response \in Responses :
       \E called \in {ContinueSuggestionConversation(conversation_history,
                                                      current_suggestion,
                                                      Strip(user_input), response)} :
         /\ Strip(user_input) # ""
         /\ Lower(Strip(user_input)) \notin ExitKeywords
         /\ conversation_history' = called.conversation_history
         /\ current_suggestion' = called.current_suggestion
         /\ submitted' = submitted + 1
         /\ IF ~called.result.success
            THEN /\ turn' = Turn("talk", user_input, response, called.result, FALSE, FALSE)
                 /\ UNCHANGED <<session, conversation_count, local_suggestion, returned>>
            ELSE /\ local_suggestion' =
                       IF PyTruthy(called.result.updated_suggestion)
                          /\ called.result.updated_suggestion # local_suggestion
                       THEN called.result.updated_suggestion
                       ELSE local_suggestion
                 /\ conversation_count' = conversation_count + 1
                 /\ \E satisfied \in SatisfactionAnswers(conversation_count + 1) :
                      /\ turn' = Turn("talk", user_input, response, called.result,
                                      FALSE, satisfied)
                      /\ IF satisfied \/ conversation_count + 1 >= max_conversations
                         THEN \E end \in {Finish(called.current_suggestion)} :
                                 /\ session' = end.session
                                 /\ returned' = end.returned
                         ELSE UNCHANGED <<session, returned>>
    /\ UNCHANGED <<fileVars, storeVars, chatVars, optVars, clientVars, classifyVars>>

NextDiscuss == StartDiscussion \/ BlankInput \/ ExitInput \/ TalkTurn

SpecDiscuss == Init /\ [][NextDiscuss]_vars

(***************************************************************************)
(* The history store over process restarts                                 *)
(***************************************************************************)
UserDecisions == {"accepted_directly", "skipped"}

\* FileOperator.__init__ of a new process
ConstructFileOperator ==
    /\ store_steps < MaxStoreOps
    /\ suggestion_history' = <<>>
    /\ store_op' = StoreOp("construct", "none")
    /\ store_log' = Append(store_log, StoreEntry("construct", "none", "", FALSE))
    /\ store_steps' = store_steps + 1
    /\ UNCHANGED <<document, fileVars, talkVars, chatVars, optVars, clientVars, classifyVars>>

RecordSuggestionHistoryCall ==
    /\ store_steps < MaxStoreOps
    /\ \E user_decision \in UserDecisions, fault \in {"none", "open", "dump"} :
       \E r \in {RecordSuggestionHistory(suggestion_history, document, store_steps,
                                         OriginalSuggestion, JNull,
                                         user_decision, fault)} :
         /\ suggestion_history' = r.suggestion_history
         /\ document' = r.document
         /\ store_op' = StoreOp("record", fault)
         /\ store_log' = Append(store_log, StoreEntry("record", fault, user_decision, FALSE))
    /\ store_steps' = store_steps + 1
    /\ UNCHANGED <<fileVars, talkVars, chatVars, optVars, clientVars, classifyVars>>

LoadSuggestionHistoryCall ==
    /\ store_steps < MaxStoreOps
    /\ \E fault \in {"none", "read", "stat"} :
         /\ suggestion_history' = LoadSuggestionHistory(suggestion_history, document, fault)
         /\ store_op' = StoreOp("load", fault)
         /\ store_log' = Append(store_log,
                                StoreEntry("load", fault, "", LoadSuggestionHistoryRaises(fault)))
    /\ store_steps' = store_steps + 1
    /\ UNCHANGED <<document, fileVars, talkVars, chatVars, optVars, clientVars, classifyVars>>

NextStore ==
    ConstructFileOperator \/ RecordSuggestionHistoryCall \/ LoadSuggestionHistoryCall

SpecStore == Init /\ [][NextStore]_vars

(***************************************************************************)
(* The loop of optimize over the suggestions, one action per iteration     *)
(***************************************************************************)
\* the suggestions of the optimization, and the suggestions a question
\* follow-up or a discussion can come back with
OptSuggestions ==
    { Suggestion("question", Str(FALSE, <<"0. Inbox", "note.md">>), EmptyStr),
      Suggestion("move", Str(FALSE, <<"0. Inbox", "note.md">>), Str(FALSE, <<"TBD">>)),
      Suggestion("create", EmptyStr, Str(FALSE, <<"3. Resources", "Topic">>)),
      Suggestion("move", Str(FALSE, <<"0. Inbox", "note.md">>),
                 Str(FALSE, <<"3. Resources", "Topic", "note.md">>)),
      Suggestion(NullType, EmptyStr, Str(FALSE, <<"1. Projects">>)) }

\* a suggestion as the history record holds it (the record keeps the type)
SuggestionJson(suggestion) ==
    IF suggestion = NoSuggestion THEN JNull ELSE JObject({<<"type", suggestion.type>>})

\* what one iteration does: the branch, the user_decision values it records
\* in order, the final suggestion they carry, the suggestion it executes if
\* any, and how it leaves the iteration (continue, break, exception)
Plan(name, decisions, final, executes, exec, ends) ==
    [name |-> name, decisions |-> decisions, final |-> final,
     executes |-> executes, exec |-> exec, ends |-> ends]

Quiet(name, ends) == Plan(name, <<>>, NoSuggestion, FALSE, NoSuggestion, ends)

\* _display_optimization_suggestion raises for a type that is no str
\* (suggestion_type.upper())
DisplayRaises(suggestion) == suggestion.type = NullType

\* the iterations the body of the for loop can make of a suggestion: the
\* question branch, the validation-failed branch, and the choice prompt
IterationPlans(f, dry, suggestion) ==
    LET Valid(x) == ValidateSuggestionPaths(f, x, VaultPath).valid
    IN IF suggestion.type = "question"
       THEN IF dry THEN {Quiet("question_dry_run", "continue")}
            ELSE {Quiet("question_skipped", "continue")}
                 \cup UNION {IF ~Valid(new_suggestion)
                             THEN {Quiet("question_invalid", "continue")}
                             ELSE IF DisplayRaises(new_suggestion)
                             THEN {Quiet("question_display_raised", "exception")}
                             ELSE {Plan("question_executed", <<>>, NoSuggestion, TRUE,
                                        new_suggestion, "continue"),
                                   Quiet("question_declined", "continue")} :
                             new_suggestion \in OptSuggestions}
       ELSE IF DisplayRaises(suggestion)
       THEN {Quiet("display_raised", "exception")}
       ELSE IF ~Valid(suggestion)
       THEN IF dry THEN {Quiet("invalid_dry_run", "continue")}
            ELSE {Quiet("invalid_skipped", "continue"), Quiet("invalid_quit", "break"),
                  Quiet("invalid_skip_all", "break"),
                  Quiet("invalid_discussion_cancelled", "continue"),
                  Quiet("invalid_discussion_raised", "exception")}
                 \cup UNION {IF ~Valid(final_suggestion)
                             THEN {Quiet("invalid_still_invalid", "continue")}
                             ELSE IF DisplayRaises(final_suggestion)
                             THEN {Quiet("invalid_display_raised", "exception")}
                             ELSE {Plan("invalid_corrected_executed", <<>>, NoSuggestion,
                                        TRUE, final_suggestion, "continue"),
                                   Quiet("invalid_corrected_declined", "continue")} :
                             final_suggestion \in OptSuggestions}
       ELSE IF dry THEN {Quiet("dry_run", "continue")}
       ELSE {Quiet("quit", "break"), Quiet("skip_all", "break"),
             Quiet("discussion_raised", "exception"),
             Plan("skipped", <<"skipped">>, NoSuggestion, FALSE, NoSuggestion, "continue"),
             Plan("accepted_directly", <<"accepted_directly">>, NoSuggestion, TRUE,
                  suggestion, "continue"),
             Plan("discussion_cancelled", <<"discussion_cancelled">>, NoSuggestion, FALSE,
                  NoSuggestion, "continue")}
            \cup UNION {IF DisplayRaises(final_suggestion)
                        THEN {Plan("discussed_display_raised", <<"discussed">>,
                                   final_suggestion, FALSE, NoSuggestion, "exception")}
                        ELSE {Plan("discussed_accepted", <<"discussed", "accepted">>,
                                   final_suggestion, TRUE, final_suggestion, "continue"),
                              Plan("discussed_rejected",
                                   <<"discussed", "rejected_after_discussion">>,
                                   final_suggestion, FALSE, NoSuggestion, "continue")} :
                        final_suggestion \in OptSuggestions}

\* the record_suggestion_history calls of one iteration, in order
RECURSIVE RecordDecisions(_, _, _, _, _, _, _)
RecordDecisions(history, doc, now, original, final, decisions, fault) ==
    IF decisions = <<>> THEN [suggestion_history |-> history, document |-> doc]
    ELSE LET Then(r) ==
                 RecordDecisions(r.suggestion_history, r.document, now, original, final,
                                 Tail(decisions), fault)
         IN Then(RecordSuggestionHistory(history, doc, now, SuggestionJson(original),
                                         SuggestionJson(final), Head(decisions), fault))

\* optimize up to the loop: a FileOperator is made, the history loaded, and
\* the optimization gives count suggestions
StartOptimize ==
    /\ opt_state = "idle"
    /\ \E count \in 0..MaxSuggestions, fault \in {"none", "stat"} :
         /\ suggestion_history' = LoadSuggestionHistory(<<>>, document, fault)
         /\ opt_state' = IF LoadSuggestionHistoryRaises(fault) \/ count = 0
                         THEN "ended" ELSE "running"
         /\ remaining' = IF LoadSuggestionHistoryRaises(fault) THEN 0 ELSE count
    /\ handled' = 0
    /\ branch' = NoBranch
    /\ UNCHANGED <<document, store_op, store_steps, store_log, fileVars, talkVars, chatVars,
                   clientVars, classifyVars>>

\* one iteration of the for loop
HandleSuggestion ==
    /\ opt_state = "running"
    /\ remaining > 0
    /\ \E suggestion \in OptSuggestions, fault \in {"none", "open"} :
       \E plan \in IterationPlans(fs, dry_run, suggestion) :
       \E recorded \in {RecordDecisions(suggestion_history, document, handled, suggestion,
                                        plan.final, plan.decisions, fault)} :
       \E env \in (IF plan.executes THEN Envs(fs, dry_run, plan.exec)
                   ELSE {Env(FALSE, "none", 0, <<>>)}) :
       \E r \in {IF plan.executes
                 THEN ExecuteSuggestion(fs, dry_run, plan.exec, VaultPath, env)
                 ELSE Outcome(fs, NoResult, <<>>, <<>>)} :
         /\ suggestion_history' = recorded.suggestion_history
         /\ document' = recorded.document
         /\ fs' = r.fs
         /\ pre' = fs
         /\ last' = IF plan.executes
                    THEN Call("execute_suggestion",
                              FullPath(VaultPath, plan.exec.current_path),
                              FullPath(VaultPath, plan.exec.suggested_path),
                              plan.exec, env.fault, r.res, r.details, r.calls)
                    ELSE last
         /\ branch' = Branch(plan.name, plan.decisions, plan.executes)
         /\ opt_state' = IF plan.ends # "continue" \/ r.res.raised \/ remaining = 1
                         THEN "ended" ELSE "running"
    /\ handled' = handled + 1
    /\ remaining' = remaining - 1
    /\ UNCHANGED <<dry_run, steps, repeat, store_op, store_steps, store_log,
                   talkVars, chatVars, clientVars, classifyVars>>

NextOptimize == StartOptimize \/ HandleSuggestion

SpecOptimize == Init /\ [][NextOptimize]_vars

(***************************************************************************)
(* The conversation methods of one LLMClient called in any order, and the  *)
(* records optimize writes after a discussion.  Python binds names to      *)
(* objects: objects[i] is the value of the dict with identity i.           *)
(***************************************************************************)
ClientSuggestions == {OriginalSuggestion, RevisedSuggestion}

\* start_suggestion_conversation(suggestion) on a dict the caller holds:
\* suggestion.copy() makes a new object
ClientStart ==
    /\ client_steps < MaxClientCalls
    /\ \E suggestion \in ClientSuggestions :
       \E started \in {StartSuggestionConversation(suggestion)} :
         /\ objects' = objects \o <<suggestion, started.current_suggestion>>
         /\ suggestion_ref' = Len(objects) + 1
         /\ draft_ref' = Len(objects) + 2
         /\ proposed' = suggestion
         /\ conversation_history' = started.conversation_history
         /\ current_suggestion' = started.current_suggestion
         /\ client_call' = ClientCall("start", suggestion, conversation_history,
                                      current_suggestion, FALSE, NoTalkResult)
    /\ conversation_count' = 0
    /\ client_steps' = client_steps + 1
    /\ UNCHANGED <<session, local_suggestion, submitted, turn, returned,
                   fileVars, storeVars, chatVars, optVars,
                   classifyVars>>

\* continue_suggestion_conversation(user_input): the draft is rebound to the
\* parsed adjusted_suggestion when that differs, no object is written to
ClientContinue ==
    /\ client_steps < MaxClientCalls
    /\ \E response \in Responses :
       \E called \in {ContinueSuggestionConversation(conversation_history,
                                                      current_suggestion,
                                                      "rename it", response)} :
         /\ conversation_history' = called.conversation_history
         /\ current_suggestion' = called.current_suggestion
         /\ IF called.current_suggestion # current_suggestion
            THEN /\ objects' = Append(objects, called.current_suggestion)
                 /\ draft_ref' = Len(objects) + 1
            ELSE UNCHANGED <<objects, draft_ref>>
         /\ conversation_count' = IF called.result.success THEN conversation_count + 1
                                  ELSE conversation_count
         /\ client_call' = ClientCall("continue", JNull, conversation_history,
                                      current_suggestion,
                                      ContinueSuggestionConversationRaises(current_suggestion),
                                      called.result)
    /\ client_steps' = client_steps + 1
    /\ UNCHANGED <<suggestion_ref, proposed, session, local_suggestion, submitted, turn,
                   returned, fileVars, storeVars, chatVars, optVars,
                   classifyVars>>

\* the "d" branch of optimize once _interactive_discussion has returned:
\* None after a confirmed exit, else what get_final_suggestion gives once
\* the user is satisfied; the first record_suggestion_history call
ClientRecord ==
    /\ client_steps < MaxClientCalls
    /\ suggestion_ref # 0
    /\ \E ended \in {"exit"} \cup (IF conversation_count >= MinTurnsBeforeAsking
                                  THEN {"satisfied"} ELSE {}) :
       \E end \in {IF ended = "exit" THEN [session |-> "Cancelled", returned |-> JNull]
                   ELSE Finish(current_suggestion)} :
       \E recorded \in {IF end.session = "Raised"
                        THEN [suggestion_history |-> suggestion_history,
                              document |-> document]
                        ELSE RecordSuggestionHistory(
                                 suggestion_history, document, client_steps,
                                 objects[suggestion_ref], end.returned,
                                 IF PyTruthy(end.returned) THEN "discussed"
                                 ELSE "discussion_cancelled", "none")} :
         /\ suggestion_history' = recorded.suggestion_history
         /\ document' = recorded.document
         /\ client_call' = ClientCall("record", end.returned, conversation_history,
                                      current_suggestion, end.session = "Raised",
                                      NoTalkResult)
    /\ client_steps' = client_steps + 1
    /\ UNCHANGED <<objects, suggestion_ref, draft_ref, proposed, store_op, store_steps,
                   store_log, talkVars, fileVars, chatVars, optVars,
                   classifyVars>>

NextClient == ClientStart \/ ClientContinue \/ ClientRecord

SpecClient == Init /\ [][NextClient]_vars

(***************************************************************************)
(* A single-shot call and the attempts of its chat_completion              *)
(***************************************************************************)
\* the contents a successful attempt gives
ChatContents ==
    { Response("text", NoBody),
      Response("json", Body("object", FALSE, FALSE, JNull)),
      Response("fenced", Body("object", FALSE, FALSE, JNull)),
      Response("json", Body("array", FALSE, FALSE, JNull)) }

\* classify_note or optimize_structure is called; in mock mode
\* chat_completion returns the mock reply at once
StartCall ==
    /\ chat_state = "idle"
    /\ \E method \in {"classify_note", "optimize_structure"}, mock_mode \in BOOLEAN :
         /\ caller' = method
         /\ chat_state' = IF mock_mode THEN "returned" ELSE "trying"
         /\ reply' = IF mock_mode THEN MockResponse ELSE NoResponse
         /\ call_result' = CallerReturn(method, IF mock_mode THEN "returned" ELSE "trying",
                                        MockResponse)
    /\ attempt' = 0
    /\ failures' = <<>>
    /\ waits' = <<>>
    /\ UNCHANGED <<fileVars, talkVars, storeVars, optVars, clientVars, classifyVars>>

\* an iteration of the retry loop that gets a content: return
AttemptSucceeds ==
    /\ chat_state = "trying"
    /\ attempt < max_retries
    /\ \E content \in ChatContents :
         /\ reply' = content
         /\ call_result' = CallerReturn(caller, "returned", content)
    /\ chat_state' = "returned"
    /\ attempt' = attempt + 1
    /\ UNCHANGED <<caller, failures, waits, fileVars, talkVars, storeVars, optVars, clientVars, classifyVars>>

\* an iteration of the retry loop that fails
AttemptFails ==
    /\ chat_state = "trying"
    /\ attempt < max_retries
    /\ \E kind \in FailureKinds :
       \E after \in {AttemptFailed(attempt, kind, failures, waits)} :
         /\ chat_state' = after.chat_state
         /\ failures' = after.failures
         /\ waits' = after.waits
         /\ call_result' = CallerReturn(caller, after.chat_state, NoResponse)
    /\ attempt' = attempt + 1
    /\ UNCHANGED <<caller, reply, fileVars, talkVars, storeVars, optVars, clientVars, classifyVars>>

NextChat == StartCall \/ AttemptSucceeds \/ AttemptFails

SpecChat == Init /\ [][NextChat]_vars

(***************************************************************************)
(* Properties                                                              *)
(***************************************************************************)
IsMove == last.op = "move_file"

IsCreate == last.op = "create_directory"

IsExec == last.op = "execute_suggestion"

\* the node a path names in a filesystem, an "absent" node when it names none
NodeAt(f, p) ==
    LET w == Walk(f, p)
    IN IF w.err = "ok" THEN f[w.loc] ELSE [kind |-> "absent", data |-> "-"]

\* every directory on the way to p, and p itself, is a directory of f
ChainExists(f, p) ==
    LET loc == Resolve(p)
    IN \A k \in 0..Len(loc) :
         SubSeq(loc, 1, k) \in DOMAIN f /\ f[SubSeq(loc, 1, k)].kind = "dir"

\* no location above p holds a regular file
NoFileAbove(f, p) ==
    LET loc == Resolve(p)
    IN \A k \in 0..(Len(loc) - 1) :
         SubSeq(loc, 1, k) \in DOMAIN f => f[SubSeq(loc, 1, k)].kind = "dir"

\* C1: a non-dry-run move_file of an existing file ends either with success,
\* the source gone and the target present, or with failure, the source still
\* there and nothing written by the call left at the target path.
C1_MoveAllOrNothing ==
    (IsMove /\ ~dry_run /\ IsFile(pre, last.a)) =>
        \/ /\ last.res.success
           /\ ~Exists(fs, last.a)
           /\ Exists(fs, last.b)
        \/ /\ ~last.res.success
           /\ IsFile(fs, last.a)
           /\ NodeAt(fs, last.b) = NodeAt(pre, last.b)

\* C2: with dry_run set, no sequence of executions changes the filesystem.
C2_DryRunChangesNothing == dry_run => fs = InitFs

ChildNames(f, p) == {q[Len(q)] : q \in Children(f, Walk(f, p).loc)}

\* C4: a successful non-dry-run merge leaves no source directory and every
\* former child of the source under the target; a failed child move makes the
\* merge fail.
C4_MergeSuccessMovesEverything ==
    (IsExec /\ ~dry_run /\ Lower(last.sugg.type) = "merge") =>
        /\ last.res.success =>
              /\ ~Exists(fs, last.a)
              /\ \A n \in ChildNames(pre, last.a) : Exists(fs, Child(last.b, n))
        /\ (\E i \in 1..Len(last.details) : ~last.details[i].success) => ~last.res.success

\* the case C5 is about: a move of an existing regular file to a PARA path
\* whose file and parent directory do not exist, no primitive failing
C5_Case ==
    /\ IsExec
    /\ ~dry_run
    /\ last.sugg.type = "move"
    /\ last.fault = "none"
    /\ IsFile(pre, last.a)
    /\ \E i \in 1..Len(para_prefixes) : StartsWith(last.sugg.suggested_path, para_prefixes[i])
    /\ ~Exists(pre, last.b)
    /\ ~Exists(pre, ParentPath(last.b))

C5_Moved ==
    /\ ValidateSuggestionPaths(pre, last.sugg, VaultPath).valid
    /\ last.res.success
    /\ ~Exists(fs, last.a)
    /\ NodeAt(fs, last.b) = NodeAt(pre, last.a)
    /\ IsDir(fs, ParentPath(last.b))

\* C5 as stated: in that case validation passes, the execution succeeds, the
\* source is gone and the target holds the source's content.
C5_MoveToNewParaPath == C5_Case => C5_Moved

\* C5 amended: the same, for paths without descriptive pattern that pass the
\* path-safety check and whose target has no regular file above it.
C5_MoveToNewParaPathAmended ==
    ( /\ C5_Case
      /\ \A i \in 1..Len(DescriptivePatterns) :
            /\ ~Contains(last.sugg.current_path, DescriptivePatterns[i])
            /\ ~Contains(last.sugg.suggested_path, DescriptivePatterns[i])
      /\ IsSafePath(last.a)
      /\ IsSafePath(last.b)
      /\ NoFileAbove(pre, last.b) ) => C5_Moved

C5_Witness ==
    /\ C5_Case
    /\ last.sugg.current_path = Str(FALSE, <<"0. Inbox", "note.md">>)
    /\ last.sugg.suggested_path = Str(FALSE, <<"3. Resources", "Topic", "note.md">>)
    /\ last.res.success
    /\ ~Exists(fs, last.a)
    /\ NodeAt(fs, last.b) = FileNode("A")

\* C6: move_file onto an existing target fails and changes nothing, and no
\* move_file call changes the content of a file that existed before it.
C6_NoOverwrite ==
    IsMove =>
        /\ Exists(pre, last.b) =>
              /\ ~last.res.success
              /\ last.res.error # NoError
              /\ fs = pre
        /\ \A q \in DOMAIN pre :
              (pre[q].kind = "file" /\ q \in DOMAIN fs) => fs[q] = pre[q]

C6_Witness ==
    /\ IsMove
    /\ ~dry_run
    /\ IsFile(pre, last.a)
    /\ IsFile(pre, last.b)
    /\ last.res.error = "target_exists"
    /\ fs = pre

\* C7: move_file and create_directory return a result and never raise, and
\* success is false exactly when error is set.
C7_ResultNeverRaises ==
    (IsMove \/ IsCreate) =>
        /\ ~last.res.raised
        /\ ~last.res.success <=> last.res.error # NoError

C7_Witness ==
    /\ IsMove
    /\ last.fault = "unlink"
    /\ last.res.error = "unlink_failed"
    /\ ~last.res.success
    /\ ~last.res.raised

\* C8: a non-dry-run move_file that fails in its copy, verification or
\* deletion step leaves the whole filesystem as it was before the call.
C8_FailedMoveRestoresFilesystem ==
    ( /\ IsMove
      /\ ~dry_run
      /\ last.res.error \in {"copy_failed", "verify_failed", "unlink_failed"} ) => fs = pre

\* a path the safety gate is said to reject: with a "..", with a "~", in a
\* system directory, or empty or root only
SaidUnsafe(p) ==
    \/ \E i \in 1..Len(p.parts) : p.parts[i] = ".."
    \/ \E i \in 1..Len(p.parts) : p.parts[i] \in TildeSegs
    \/ (Resolve(p) # <<>> /\ Resolve(p)[1] \in SystemSegs)
    \/ p.parts = <<>>

\* C9: move_file and create_directory fail and change nothing when a path
\* they are given is unsafe.
C9_UnsafePathsRejected ==
    ( \/ IsMove /\ (SaidUnsafe(last.a) \/ SaidUnsafe(last.b))
      \/ IsCreate /\ SaidUnsafe(last.a) ) =>
        /\ ~last.res.success
        /\ fs = pre

\* C10 as stated: every create_directory call of a pair succeeds with no
\* error, the second changes nothing, and in non-dry-run mode a path that did
\* not exist has its full chain afterwards.
C10_CreateDirectoryTwice ==
    IsCreate =>
        /\ last.res.success
        /\ last.res.error = NoError
        /\ repeat # "n/a" => fs = pre
        /\ (~dry_run /\ ~Exists(pre, last.a)) => ChainExists(fs, last.a)

\* C10 amended: a create_directory call that follows a successful one on the
\* same path succeeds with no error and changes nothing; in non-dry-run mode a
\* successful call on a path that did not exist leaves its full chain.
C10_CreateDirectoryTwiceAmended ==
    IsCreate =>
        /\ repeat = "after_success" =>
              /\ last.res.success
              /\ last.res.error = NoError
              /\ fs = pre
        /\ (~dry_run /\ last.res.success /\ ~Exists(pre, last.a)) => ChainExists(fs, last.a)

C10_Witness ==
    /\ IsCreate
    /\ ~dry_run
    /\ repeat = "after_success"
    /\ ~Exists(InitFs, last.a)
    /\ ChainExists(fs, last.a)
    /\ last.res.success
    /\ fs = pre

(***************************************************************************)
(* The validator's rules, stated one by one                                *)
(***************************************************************************)
\* the validator's answer for the suggestion of the latest execution
Validated == ValidateSuggestionPaths(pre, last.sugg, VaultPath)

Rule2Fails(s) ==
    \E i \in 1..Len(DescriptivePatterns) :
       \/ Contains(s.current_path, DescriptivePatterns[i])
       \/ Contains(s.suggested_path, DescriptivePatterns[i])

Rule3Fails(s) == s.type \in {"move", "rename"} /\ IsBlank(s.current_path)

Rule4Fails(s) == IsBlank(s.suggested_path) \/ s.suggested_path \in Placeholders

HasParaPrefix(s) ==
    \E i \in 1..Len(para_prefixes) : StartsWith(s.suggested_path, para_prefixes[i])

Rule5Fails(s) == s.type \in {"move", "create"} /\ ~HasParaPrefix(s)

Rule6Fails(f, s) ==
    s.type \in {"move", "rename"} /\ ~Exists(f, Join(VaultPath, s.current_path))

\* the number of the lowest rule among 2 to 6 that fails, 0 when none does
LowestFailingRule(f, s) ==
    IF Rule2Fails(s) THEN 2
    ELSE IF Rule3Fails(s) THEN 3
    ELSE IF Rule4Fails(s) THEN 4
    ELSE IF Rule5Fails(s) THEN 5
    ELSE IF Rule6Fails(f, s) THEN 6
    ELSE 0

\* the rule a rejection reason belongs to
RuleOfReason(reason) ==
    CASE reason = <<>> -> 0
      [] reason[1] = "descriptive" -> 2
      [] reason[1] = "blank_current_path" -> 3
      [] reason[1] \in {"blank_suggested_path", "placeholder"} -> 4
      [] reason[1] = "no_para_prefix" -> 5
      [] reason[1] = "current_path_missing" -> 6

\* C11: a question passes with an empty reason; any other suggestion passes
\* with an empty reason exactly when none of the rules 2 to 6 fails, and is
\* otherwise rejected with the reason of the lowest-numbered failing rule.
C11_FirstFailingRuleWins ==
    IsExec =>
        IF last.sugg.type = "question"
        THEN Validated = [valid |-> TRUE, reason |-> <<>>]
        ELSE /\ Validated.valid <=> LowestFailingRule(pre, last.sugg) = 0
             /\ Validated.valid => Validated.reason = <<>>
             /\ ~Validated.valid =>
                   RuleOfReason(Validated.reason) = LowestFailingRule(pre, last.sugg)

C11_Witness ==
    /\ IsExec
    /\ last.sugg.type = "move"
    /\ Rule3Fails(last.sugg)
    /\ Rule5Fails(last.sugg)
    /\ Validated = [valid |-> FALSE, reason |-> <<"blank_current_path">>]

\* C12 as stated: a suggestion of any type whose suggested_path is a
\* placeholder is rejected.
C12_PlaceholderRejected ==
    (IsExec /\ last.sugg.suggested_path \in Placeholders) => ~Validated.valid

\* C12 amended: a suggestion of any type but question whose suggested_path
\* is a placeholder is rejected.
C12_PlaceholderRejectedUnlessQuestion ==
    (IsExec /\ last.sugg.suggested_path \in Placeholders /\ last.sugg.type # "question")
        => ~Validated.valid

C12_Witness ==
    /\ IsExec
    /\ last.sugg.type = "merge"
    /\ last.sugg.suggested_path = Str(FALSE, <<"TBD">>)
    /\ Validated = [valid |-> FALSE, reason |-> <<"placeholder">>]
    /\ last.res.error = "validation_failed"

\* C13: a move or create suggestion that passes rules 2 to 4 is rejected by
\* the prefix rule exactly when its suggested_path starts with none of the
\* five PARA prefixes; a rename or merge suggestion never is.
C13_ParaPrefixRule ==
    IsExec =>
        /\ ( /\ last.sugg.type \in {"move", "create"}
             /\ ~Rule2Fails(last.sugg)
             /\ ~Rule3Fails(last.sugg)
             /\ ~Rule4Fails(last.sugg) ) =>
               (Validated = [valid |-> FALSE, reason |-> <<"no_para_prefix">>]
                  <=> ~HasParaPrefix(last.sugg))
        /\ last.sugg.type \in {"rename", "merge"} =>
               Validated.reason # <<"no_para_prefix">>

C13_Witness ==
    /\ IsExec
    /\ last.sugg.type = "move"
    /\ last.sugg.current_path = Str(FALSE, <<"0. Inbox", "note.md">>)
    /\ last.sugg.suggested_path = Str(FALSE, <<"random", "output.md">>)
    /\ Validated = [valid |-> FALSE, reason |-> <<"no_para_prefix">>]

(***************************************************************************)
(* Properties of the discussion session and of the history store           *)
(***************************************************************************)
\* C14: a discussion does not ask for another turn once 10 inputs have been
\* submitted to continue_suggestion_conversation, failed calls included, and
\* the turn counter never decreases and never exceeds 10.
C14_StopsAfterTenSubmittedTurns ==
    /\ [](session = "Active" => submitted < max_conversations)
    /\ [](conversation_count <= max_conversations)
    /\ [][conversation_count' >= conversation_count]_vars

\* C15: a discussion is resolved with a final suggestion only with 3 or more
\* counted turns, and then after the user confirmed satisfaction or with the
\* count at 10.
C15_ResolvedOnlyAfterMinimum ==
    session = "Resolved" =>
        /\ conversation_count >= 3
        /\ turn.satisfied \/ conversation_count = 10
        /\ returned = current_suggestion

C15_Witness ==
    /\ session = "Resolved"
    /\ conversation_count = 3
    /\ turn.satisfied
    /\ returned = RevisedSuggestion

\* C16: an exit keyword makes no AI call and leaves the draft, the
\* transcript and the counter as they are; confirmed, it ends the session
\* with no final suggestion, declined, the session stays active.
C16_ExitKeyword ==
    [][turn'.op = "exit" =>
         /\ submitted' = submitted
         /\ conversation_history' = conversation_history
         /\ current_suggestion' = current_suggestion
         /\ conversation_count' = conversation_count
         /\ local_suggestion' = local_suggestion
         /\ IF turn'.confirmed
            THEN session' = "Cancelled" /\ returned' = JNull
            ELSE session' = "Active"]_vars

C16_Witness ==
    /\ turn.op = "exit"
    /\ turn.confirmed
    /\ session = "Cancelled"
    /\ returned = JNull
    /\ conversation_count >= 3
    /\ current_suggestion = RevisedSuggestion

\* a reply of the AI that was received and cannot be parsed as JSON
Unparsable(response) ==
    response.form \notin {"none", "error"} /\ ParseJsonResponse(response).err # "ok"

\* a reply that parses to an object
WellFormed(response) ==
    /\ response.form \notin {"none", "error"}
    /\ ParseJsonResponse(response).err = "ok"
    /\ ParseJsonResponse(response).value.kind = "object"

\* C17: a call whose reply cannot be parsed returns success=false, keeps the
\* draft, records the user turn and leaves the session active; and in every
\* active session a call with a well-formed reply succeeds and sets the draft.
C17_ParseFailureRecoverable ==
    /\ [][(turn'.op = "talk" /\ Unparsable(turn'.response)) =>
            /\ ~turn'.result.success
            /\ turn'.result.error # NoError
            /\ current_suggestion' = current_suggestion
            /\ conversation_history' =
                  Append(conversation_history,
                         Message("user", Strip(turn'.user_input)))
            /\ session' = "Active"]_vars
    /\ [](session = "Active" =>
            \A response \in {r \in Responses : WellFormed(r)} :
               LET called == ContinueSuggestionConversation(
                                 conversation_history, current_suggestion,
                                 "rename it", response)
               IN /\ called.result.success
                  /\ response.body.has_adjusted =>
                        called.current_suggestion = response.body.adjusted)

C17_Witness ==
    /\ turn.op = "talk"
    /\ Unparsable(turn.response)
    /\ ~turn.result.success
    /\ turn.result.error = "json_parse_failed"
    /\ session = "Active"
    /\ conversation_history[Len(conversation_history)] = Message("user", "rename it")
    /\ current_suggestion = RevisedSuggestion

\* C18: after a call whose parsed reply carries an adjusted_suggestion the
\* draft is that value, whatever it is; after one whose parsed reply
\* carries none the draft is unchanged.
C18_DraftReplacedWhole ==
    [][(turn'.op = "talk" /\ WellFormed(turn'.response)) =>
         /\ turn'.result.success
         /\ current_suggestion' =
               IF turn'.response.body.has_adjusted
               THEN turn'.response.body.adjusted
               ELSE current_suggestion]_vars

C18_Witness ==
    /\ turn.op = "talk"
    /\ turn.result.success
    /\ turn.response.body.has_adjusted
    /\ current_suggestion = JObject({<<"suggested_path", "1. Projects">>})
    /\ local_suggestion = current_suggestion

\* C19: get_final_suggestion never raises: before a conversation is started
\* it returns None, afterwards the draft.
C19_FinalSuggestionNeverRaises ==
    /\ ~GetFinalSuggestion(current_suggestion).raised
    /\ GetFinalSuggestion(current_suggestion).value =
          IF session = "Idle" THEN JNull ELSE current_suggestion
    /\ session # "Raised"

\* C20: the records of the document before a record_suggestion_history call
\* are the first records of the document after it.
C20_DocumentAppendOnly ==
    [][store_op'.op = "record" => IsPrefix(document.records, document'.records)]_vars

\* the log is n successful record calls on the empty store, then a new
\* FileOperator and a load that read the document
RecordedThenLoaded(n) ==
    /\ Len(store_log) = n + 2
    /\ \A i \in 1..n : store_log[i].op = "record" /\ store_log[i].fault = "none"
    /\ store_log[n + 1].op = "construct"
    /\ store_log[n + 2].op = "load" /\ store_log[n + 2].fault = "none"

\* C21: n suggestions recorded on the empty store and loaded by a fresh
\* FileOperator give a history of n records with suggestion_id 1..n in
\* order and the user_decision values that were recorded.
C21_RecordThenLoadRoundTrip ==
    \A n \in 1..MaxStoreOps :
        RecordedThenLoaded(n) =>
            /\ Len(suggestion_history) = n
            /\ \A i \in 1..n :
                  /\ suggestion_history[i].suggestion_id = i
                  /\ suggestion_history[i].user_decision = store_log[i].user_decision

C21_Witness ==
    /\ RecordedThenLoaded(3)
    /\ Len(suggestion_history) = 3
    /\ suggestion_history[1].user_decision # suggestion_history[2].user_decision

\* C23: a store operation whose read or write of the document fails does
\* not raise; a failed save keeps the new record in memory, a failed load
\* leaves the in-memory history as it was.
C23_PersistenceFailuresSwallowed ==
    [][store_op'.fault # "none" /\ store_steps' = store_steps + 1 =>
          /\ ~store_log'[Len(store_log')].raised
          /\ store_op'.op = "record" =>
                /\ Len(suggestion_history') = Len(suggestion_history) + 1
                /\ SubSeq(suggestion_history', 1, Len(suggestion_history)) = suggestion_history
          /\ store_op'.op = "load" => suggestion_history' = suggestion_history]_vars

\* the i-th record of a list of records has suggestion_id i
NumberedFromOne(records) == \A i \in 1..Len(records) : records[i].suggestion_id = i

\* C29: in every state reached from the empty store by record calls, with
\* loads of the documents they wrote in between, the i-th record of the
\* history has suggestion_id i.
C29_SuggestionIdsCountFromOne ==
    /\ NumberedFromOne(suggestion_history)
    /\ NumberedFromOne(document.records)

C29_Witness ==
    /\ Len(store_log) = 5
    /\ store_log[1].op = "record" /\ store_log[2].op = "record"
    /\ store_log[3].op = "construct"
    /\ store_log[4].op = "load" /\ store_log[4].fault = "none"
    /\ store_log[5].op = "record"
    /\ Len(suggestion_history) = 3
    /\ suggestion_history[3].suggestion_id = 3

\* C27: whatever _execute_suggestion changes on the filesystem is changed
\* by a FileOperator call (move_file or create_directory); the executors
\* themselves only read it.
C27_MutationsOnlyByFileOperator ==
    IsExec /\ fs # pre => last.calls # <<>>

\* the suggestion types _execute_suggestion dispatches on
SupportedTypes == {"move", "rename", "create", "merge"}

\* C28: for a suggestion whose type is none of move, rename, create, merge,
\* _execute_suggestion returns success = false with an error, does not
\* raise, and leaves the filesystem as it was.
C28_UnsupportedTypeIsErrorResult ==
    IsExec /\ Lower(last.sugg.type) \notin SupportedTypes =>
        /\ ~last.res.raised
        /\ ~last.res.success
        /\ last.res.error # NoError
        /\ fs = pre

\* the transcript after a call: the one before it, the user turn, and one
\* assistant turn if with_reply
TranscriptAfterCall(before, after, user_input, with_reply) ==
    /\ IsPrefix(before, after)
    /\ Len(after) = Len(before) + (IF with_reply THEN 2 ELSE 1)
    /\ after[Len(before) + 1] = Message("user", user_input)
    /\ with_reply => after[Len(after)].role = "assistant"

\* _parse_json_response returned a value for the reply
ReplyParsed(response) ==
    response.form \notin {"none", "error"} /\ ParseJsonResponse(response).err = "ok"

\* C30: within a session the transcript before a step is a prefix of the
\* transcript after it; a continue_suggestion_conversation call appends the
\* user turn, and one assistant turn after it exactly when the reply was
\* parsed.
C30_TranscriptAppendOnly ==
    [][/\ session = "Active" => IsPrefix(conversation_history, conversation_history')
       /\ (turn'.op = "talk" /\ submitted' = submitted + 1) =>
             TranscriptAfterCall(conversation_history, conversation_history',
                                 Strip(turn'.user_input),
                                 ReplyParsed(turn'.response))]_vars

\* C30 amended: as C30, the assistant turn being appended exactly when the
\* call succeeds, that is when the reply parsed to a JSON object.
C30_TranscriptAppendOnlyOnSuccess ==
    [][/\ session = "Active" => IsPrefix(conversation_history, conversation_history')
       /\ (turn'.op = "talk" /\ submitted' = submitted + 1) =>
             /\ TranscriptAfterCall(conversation_history, conversation_history',
                                    Strip(turn'.user_input), turn'.result.success)
             /\ turn'.result.success <=> WellFormed(turn'.response)]_vars

C30_Witness ==
    /\ turn.op = "talk"
    /\ ReplyParsed(turn.response)
    /\ ~turn.result.success
    /\ Len(conversation_history) = 4
    /\ conversation_history[2].role = "user"
    /\ conversation_history[3].role = "assistant"
    /\ conversation_history[4] = Message("user", "rename it")

C25_ExponentialWaits ==
    (\A k \in 1..Len(failures) : failures[k] \in {"rate_limit", "api_error"}) =>
        /\ Len(waits) = Len(failures)
        /\ \A k \in 1..Len(waits) : waits[k] = Pow2(k - 1)

\* C26: classify_note and optimize_structure do not raise; a call that
\* fails returns a record with success = false, error and raw_response.
C26_FailureRecordShape ==
    /\ ~call_result.raised
    /\ (call_result.done /\ ~call_result.success) =>
          {"success", "error", "raw_response"} \subseteq call_result.keys

(***************************************************************************)
(* Properties of the optimize loop                                         *)
(***************************************************************************)
\* the branches of an iteration that end without an exception
ListedBranch(name) ==
    name \in {"accepted_directly", "skipped", "discussed_accepted", "discussed_rejected",
              "discussion_cancelled", "invalid_skipped", "invalid_quit",
              "invalid_skip_all", "invalid_discussion_cancelled",
              "invalid_still_invalid", "invalid_corrected_executed",
              "invalid_corrected_declined", "question_skipped", "question_invalid",
              "question_executed", "question_declined", "quit", "skip_all"}

\* C22: every iteration of the optimize loop outside dry-run mode, whichever
\* branch it takes (accepted, skipped, discussed, cancelled, validation
\* failed, question, quit), appends at least one record for its suggestion
\* to the history.
C22_EveryBranchRecorded ==
    [][(handled' = handled + 1 /\ ~dry_run /\ ListedBranch(branch'.name)) =>
          Len(suggestion_history') > Len(suggestion_history)]_vars

(***************************************************************************)
(* Properties of the executors, continued                                  *)
(***************************************************************************)
\* the regular files at or below the directory p
FilesUnder(f, p) ==
    LET w == Walk(f, p)
    IN IF w.err # "ok" THEN {}
       ELSE {q \in DOMAIN f : IsPrefix(w.loc, q) /\ f[q].kind = "file"}

IsMerge == IsExec /\ ~dry_run /\ Lower(last.sugg.type) = "merge" /\ IsDir(pre, last.a)

\* C31: after a merge outside dry-run mode, successful or not, every file
\* that was under the source directory is still under the source or under
\* the target with its content, and the source directory is gone only when
\* every former child of it is under the target.
C31_MergeLosesNoFile ==
    IsMerge =>
        /\ \A q \in FilesUnder(pre, last.a) :
             \E r \in FilesUnder(fs, last.a) \cup FilesUnder(fs, last.b) :
                r[Len(r)] = q[Len(q)] /\ fs[r] = pre[q]
        /\ ~Exists(fs, last.a) =>
              \A n \in ChildNames(pre, last.a) : Exists(fs, Child(last.b, n))

\* a merge that met a name collision in the target, moved another child and
\* kept the colliding file in the source
C31_Witness ==
    /\ IsMerge
    /\ fs # pre
    /\ ChildNames(pre, last.a) \cap ChildNames(pre, last.b) # {}
    /\ FilesUnder(fs, last.a) # {}
    /\ ~last.res.success

\* the subtree rooted at p: the nodes at and below p, by their path from p
SubtreeAt(f, p) ==
    LET w == Walk(f, p)
    IN IF w.err # "ok" THEN {}
       ELSE {<<SubSeq(q, Len(w.loc) + 1, Len(q)), f[q]>> :
               q \in {x \in DOMAIN f : IsPrefix(w.loc, x)}}

IsDirMove ==
    /\ IsExec /\ ~dry_run
    /\ Lower(last.sugg.type) \in {"move", "rename"}
    /\ IsDir(pre, last.a)
    /\ last.res.success

\* C32: after a successful move or rename of a directory outside dry-run
\* mode the source path is gone and the subtree it held is rooted exactly
\* at suggested_path, also when suggested_path existed and the overwrite
\* was confirmed; the result has the one synthetic move_directory detail.
C32_DirectoryMovedToSuggestedPath ==
    IsDirMove =>
        /\ ~Exists(fs, last.a)
        /\ SubtreeAt(fs, last.b) = SubtreeAt(pre, last.a)
        /\ last.details = <<SyntheticDetail("move_directory")>>

\* C33: whatever the letter case of its type, a suggestion executed as a
\* move or a create changes the filesystem only when its suggested_path
\* starts with one of the five PARA root prefixes.
C33_DispatchedTypeWasValidated ==
    (IsExec /\ ~dry_run /\ Lower(last.sugg.type) \in {"move", "create"} /\ fs # pre) =>
        HasParaPrefix(last.sugg)

\* C36: a move, rename or merge suggestion whose current_path is empty or
\* blank is answered with success=false and an error, and nothing on the
\* filesystem is created or moved.
C36_BlankCurrentPathNeverMutates ==
    (IsExec /\ last.sugg.type \in {"move", "rename", "merge"}
       /\ IsBlank(last.sugg.current_path)) =>
        /\ fs = pre
        /\ ~last.res.success
        /\ last.res.error # NoError
        /\ ~last.res.raised

\* C35: when the target of a move or rename exists and the overwrite is not
\* confirmed, nothing on the filesystem changes, no FileOperator method is
\* called, and the outcome is reported as a cancellation, not as a failed
\* operation.
C35_DeclinedOverwriteIsCancellation ==
    (IsExec /\ last.sugg.type \in {"move", "rename"}
       /\ last.res.error = "user_cancelled") =>
        /\ fs = pre
        /\ last.calls = <<>>
        /\ DisplayExecutionResult(last.res).banner # "operation_failed"

(***************************************************************************)
(* Properties of the client called directly                                *)
(***************************************************************************)
\* C34: continue_suggestion_conversation on a client on which no
\* conversation was started returns a record with success=false and an
\* error, raises nothing, and leaves the transcript as it was.
C34_ContinueBeforeStartIsErrorRecord ==
    (client_call.op = "continue" /\ suggestion_ref = 0) =>
        /\ ~client_call.raised
        /\ ~client_call.result.success
        /\ client_call.result.error # NoError
        /\ conversation_history = client_call.before_history

\* C37: right after start_suggestion_conversation(suggestion), whatever the
\* client held before, the transcript is one assistant turn and the draft
\* is the given suggestion.
C37_StartResetsTheSession ==
    client_call.op = "start" =>
        /\ Len(conversation_history) = 1
        /\ conversation_history[1].role = "assistant"
        /\ current_suggestion = client_call.given
        /\ objects[draft_ref] = client_call.given

\* a start on a client that holds an earlier session of several turns whose
\* draft was changed
C37_Witness ==
    /\ client_call.op = "start"
    /\ Len(client_call.before_history) >= 5
    /\ client_call.before_draft.kind = "object"
    /\ client_call.before_draft \notin ClientSuggestions
    /\ current_suggestion = client_call.given

\* the record a step appended to the history
Appended(before, after) == after[Len(after)]

\* C38: the dict passed to start_suggestion_conversation is never written
\* to by the calls that follow, and a record written after the discussion
\* holds it as original_suggestion, and the last draft as final_suggestion
\* when the discussion gave one.
C38_ProposedSuggestionNotModified ==
    /\ [](suggestion_ref # 0 => objects[suggestion_ref] = proposed)
    /\ [][(client_call'.op = "record" /\ Len(suggestion_history') > Len(suggestion_history)) =>
            /\ Appended(suggestion_history, suggestion_history').original_suggestion = proposed
            /\ Appended(suggestion_history, suggestion_history').user_decision = "discussed" =>
                  Appended(suggestion_history, suggestion_history').final_suggestion
                     = current_suggestion]_vars

\* a record written after a discussion that changed the draft
C38_Witness ==
    /\ client_call.op = "record"
    /\ suggestion_history # <<>>
    /\ suggestion_history[Len(suggestion_history)].user_decision = "discussed"
    /\ suggestion_history[Len(suggestion_history)].original_suggestion = proposed
    /\ suggestion_history[Len(suggestion_history)].final_suggestion # proposed
    /\ objects[suggestion_ref] = proposed

(***************************************************************************)
(* Properties of the history store, continued                              *)
(***************************************************************************)
IsLoad == store_op.op = "load"

\* C39: after load_suggestion_history the in-memory history equals the
\* parsed content of the document when the document exists, and is empty
\* when it is absent; the absence raises no error.
C39_LoadMirrorsDocument ==
    (IsLoad /\ store_op.fault = "none") =>
        /\ document.state = "valid" => suggestion_history = document.records
        /\ document.state = "absent" =>
              /\ suggestion_history = <<>>
              /\ ~store_log[Len(store_log)].raised

\* C39 amended: a load that finds the document and reads and parses it
\* replaces the in-memory history with its content; a load that finds no
\* document, or fails to read or parse it, leaves the in-memory history as
\* it was; the absence raises no error.
C39_LoadMirrorsReadableDocument ==
    [][(store_steps' = store_steps + 1 /\ store_op'.op = "load"
          /\ store_op'.fault # "stat") =>
          /\ (document.state = "valid" /\ store_op'.fault = "none") =>
                suggestion_history' = document.records
          /\ (document.state # "valid" \/ store_op'.fault # "none") =>
                suggestion_history' = suggestion_history
          /\ ~store_log'[Len(store_log')].raised]_vars

\* a load in a new process that brought back the records of the document,
\* and before it a load without a document
C39_Witness ==
    /\ IsLoad /\ store_op.fault = "none"
    /\ document.state = "valid"
    /\ suggestion_history = document.records
    /\ suggestion_history # <<>>
    /\ Len(store_log) >= 4
    /\ store_log[Len(store_log) - 1].op = "construct"
    /\ store_log[1].op = "load" /\ store_log[1].fault = "none"

(***************************************************************************)
(* Properties of execute_classification                                    *)
(***************************************************************************)
IsClassify == last.op = "execute_classification"

\* C40: execute_classification creates the listed directories in order,
\* returns success=false without a move_file call as soon as a creation
\* fails, reports success=true exactly when the final move_file succeeded,
\* lists the result of every FileOperator call in call order, and never
\* raises.
C40_ClassificationStepsInOrder ==
    IsClassify =>
        /\ ~last.res.raised
        /\ \A i \in 1..Len(last.calls) :
             /\ last.calls[i].operation = "create_directory" =>
                   /\ i <= Len(classification.create_directories.items)
                   /\ last.calls[i].path =
                         Join(VaultPath, classification.create_directories.items[i].value)
             /\ last.calls[i].operation = "move_file" =>
                   /\ i = Len(classification.create_directories.items) + 1
                   /\ last.calls[i].path = last.b
             /\ i < Len(last.calls) => last.calls[i].res.success
        /\ last.res.success <=>
              /\ last.calls # <<>>
              /\ last.calls[Len(last.calls)].operation = "move_file"
              /\ last.calls[Len(last.calls)].res.success
        /\ last.details = [i \in 1..Len(last.calls) |-> last.calls[i].res]

\* a call whose second creation failed after the first succeeded
C40_Witness ==
    /\ IsClassify
    /\ Len(last.calls) = 2
    /\ last.calls[1].res.success
    /\ last.calls[2].operation = "create_directory"
    /\ ~last.calls[2].res.success
    /\ Len(classification.create_directories.items) = 3
    /\ ~last.res.success

====
